---------------------------- MODULE Spec2Model ----------------------------
(***************************************************************************)
(* A model of the monch shell's pipeline engine                            *)
(* (monch_shell/src/interpreter.rs and its collaborators exe.rs,           *)
(* builtin.rs, types.rs, error.rs, streams.rs).                            *)
(*                                                                         *)
(* Interpreter::eval_command is modelled as a sequential process whose     *)
(* position is pc; the stages it launches (child processes and in-process  *)
(* worker threads) run concurrently with it.                               *)
(***************************************************************************)
EXTENDS Integers, Sequences, FiniteSets, TLC

VARIABLES
    cwd,          \* Interpreter.current_dir, a sequence of path components
    pc,           \* position of eval_command
    cmd,          \* the ast::Command being evaluated
    stages,       \* Vec<Stage> of eval_command
    ends,         \* the pipeline_ends Streams while it is being built
    ios,          \* io_streams: Vec<Streams> returned by make_stream_chain
    idx,          \* number of stages execute has been called on
    children,     \* one handle per launched stage (Vec<Box<dyn Wait>> and what runs behind it)
    exit_codes,   \* Vec<Exit> collected by the wait loop
    result,       \* what eval_command returned
    engineHolds,  \* the stream handles the engine owns at this moment
    stageHolds,   \* the stream handles each launched stage owns
    effects,      \* what this evaluation did to the outside world
    cwd0,         \* current_dir when this evaluation started
    records,      \* the records a utility is about to put!
    util,         \* the utility process that writes them
    wire,         \* the bytes the utility has written to its standard output
    fed,          \* what the InputParser was opened on
    unread,       \* the bytes the InputParser's reader still holds
    yielded,      \* what the calls of InputParser::next returned, in order
    value,        \* the record a DataPath is evaluated against
    data_path,    \* the path string given to DataPath::parse
    selected,     \* what DataPath::get_from returned
    to_ios,       \* the Streams a `to` stage was executed with
    to_run,       \* the `to` stage: its arguments, its worker, its exit
    last_exit,    \* the REPL's last_exit
    repl,         \* the REPL loop: the line read last and what was done with it
    pairs,        \* the parse tree of one command line, as the grammar yields it
    parse_result  \* what Parser::p_command returned for it

engineVars == <<cwd, pc, cmd, stages, ends, ios, idx, children, exit_codes, result,
                engineHolds, stageHolds, effects, cwd0>>
codecVars == <<records, util, wire, fed, unread, yielded>>
pathVars == <<value, data_path, selected>>
toVars == <<to_ios, to_run>>
replVars == <<last_exit, repl>>
parserVars == <<pairs, parse_result>>
shellVars == <<toVars, replVars, parserVars>>
ioVars == <<codecVars, pathVars, shellVars>>

vars == <<engineVars, codecVars, pathVars, shellVars>>

-----------------------------------------------------------------------------
(* Bounds of the model *)

\* The longest pipeline a user writes (the engine may append one more stage).
MaxStages == 3

-----------------------------------------------------------------------------
(* types.rs *)

Ty == {"Any", "Unknown", "Nothing", "Cbor", "Text", "Tty"}

\* The strings that appear as arguments in the modelled command lines.
ArgStrings == {"tty", "cbor", "text", " Tty", "any", "sub", "nodir", ".name"}

\* str::trim followed by str::to_lowercase, on the strings of the model.
trim_lowercase(s) ==
    IF s = " Tty" THEN "tty" ELSE s

\* impl FromStr for Ty: Ok(ty) is [ok |-> TRUE, ty |-> ty], Err(()) has ok FALSE.
Ty_from_str(ty_name) ==
    LET lower == trim_lowercase(ty_name) IN
    IF lower = "cbor" THEN [ok |-> TRUE, ty |-> "Cbor"]
    ELSE IF lower = "text" THEN [ok |-> TRUE, ty |-> "Text"]
    ELSE IF lower = "tty" THEN [ok |-> TRUE, ty |-> "Tty"]
    ELSE [ok |-> FALSE, ty |-> "Nothing"]

\* A slip of can_connect: Nothing treated as a universal source, not a drain.
can_connect_flipped(from, to) ==
    IF to = "Any" THEN TRUE
    ELSE IF from = to THEN TRUE
    ELSE IF from = "Nothing" THEN TRUE
    ELSE FALSE

\* pub fn can_connect: the match arms in the order of the source.
can_connect(from, to) ==
    IF to = "Any" THEN TRUE
    ELSE IF from = to THEN TRUE
    ELSE IF to = "Nothing" THEN TRUE
    ELSE FALSE

-----------------------------------------------------------------------------
(* exe.rs: Exit *)

Code(n) == [kind |-> "Code", n |-> n]
Signal(n) == [kind |-> "Signal", n |-> n]

SUCCESS == Code(0)
FAILURE == Code(1)
BAD_SYNTAX == Code(2)
COULD_NOT_EXECUTE == Code(126)
COMMAND_NOT_FOUND == Code(127)

\* Exit::success
success(e) == e = SUCCESS

\* A slip of reduce_worst: keeps the last non-successful exit, not the first.
reduce_worst_last(a, b) ==
    IF ~success(b) THEN b ELSE a

\* A slip of reduce_worst: the success test is made on the right argument.
reduce_worst_tests_right(a, b) ==
    IF ~success(b) THEN a ELSE b

\* Exit::reduce_worst
reduce_worst(a, b) ==
    IF ~success(a) THEN a ELSE b

\* Iterator::reduce(Exit::reduce_worst) over exit_codes, None on an empty vector.
RECURSIVE fold_reduce(_, _)
fold_reduce(acc, es) ==
    IF es = <<>> THEN acc
    ELSE fold_reduce(reduce_worst(acc, Head(es)), Tail(es))

\* exit_codes.into_iter().reduce(reduce_worst).unwrap_or(SUCCESS)
aggregate(es) ==
    IF es = <<>> THEN SUCCESS ELSE fold_reduce(Head(es), Tail(es))

\* process::ExitStatus of a child that has terminated: it exited with a
\* status code (code() is Some, 0..255 on POSIX), or was killed by a signal.
Exited(code) == [exited |-> TRUE, code |-> code, signal |-> 0]
Killed(signo) == [exited |-> FALSE, code |-> 0, signal |-> signo]

\* The statuses the children of the model terminate with.
ExitStatuses == {Exited(0), Exited(1), Exited(2), Killed(9)}

\* A slip of the conversion: a signal becomes the status code a shell would
\* report for it, 128 plus the signal number.
Exit_from_shell_code(status) ==
    IF status.exited THEN Code(status.code) ELSE Code(128 + status.signal)

\* From<process::ExitStatus> for Exit: the code when there is one (the cast
\* `code as u32` leaves 0..255 as it is), else the number of the signal.
Exit_from(status) ==
    IF status.exited THEN Code(status.code) ELSE Signal(status.signal)

\* The exits a child process can report in the model.
ChildExits == { Exit_from(status) : status \in ExitStatuses }


-----------------------------------------------------------------------------
(* error.rs *)

\* An Error value: its variant and, for TypeMismatch and ResolveBinary, its fields.
Err(kind) ==
    [kind |-> kind, cmd |-> "", l_cmd |-> "", l_ty |-> "Nothing",
     r_cmd |-> "", r_ty |-> "Nothing"]

Error_Io == Err("Io")
Error_ExecutionFailed == Err("ExecutionFailed")
Error_BadWorkingDirectory == Err("BadWorkingDirectory")
Error_ResolveBinary(name) == [Err("ResolveBinary") EXCEPT !.cmd = name]
Error_TypeMismatch(lc, lt, rc, rt) ==
    [Err("TypeMismatch") EXCEPT !.l_cmd = lc, !.l_ty = lt, !.r_cmd = rc, !.r_ty = rt]

\* A slip of as_exit: a bad working directory is not counted as a failure.
as_exit_bad_dir_ok(e) ==
    IF e.kind = "Io" THEN FAILURE
    ELSE IF e.kind = "TypeMismatch" THEN BAD_SYNTAX
    ELSE IF e.kind = "ExecutionFailed" THEN COULD_NOT_EXECUTE
    ELSE IF e.kind = "ResolveBinary" THEN COMMAND_NOT_FOUND
    ELSE SUCCESS

\* Error::as_exit
as_exit(e) ==
    IF e.kind = "Io" THEN FAILURE
    ELSE IF e.kind = "TypeMismatch" THEN BAD_SYNTAX
    ELSE IF e.kind = "ExecutionFailed" THEN COULD_NOT_EXECUTE
    ELSE IF e.kind = "ResolveBinary" THEN COMMAND_NOT_FOUND
    ELSE FAILURE

\* Result<Exit, Error> of eval_command; tag "none" while it has not returned.
NoResult == [tag |-> "none", exit |-> SUCCESS, err |-> Err("none")]
Ok(e) == [tag |-> "Ok", exit |-> e, err |-> Err("none")]
Failed(e) == [tag |-> "Err", exit |-> SUCCESS, err |-> e]

-----------------------------------------------------------------------------
(* The environment the resolver reads: the built-in registry and the two     *)
(* search paths.                                                             *)

\* builtin.rs: the keys of BUILTINS
BUILTINS == {"cd", "to"}

\* The command names of the model.  "cd" also names a program on both search
\* paths and "to" one on the shell path; "ls" is on both paths, "get" only on
\* the shell path, "cat" only on the system path, "nope" on neither, and
\* looking "bad" up on the shell path fails with another error of `which`.
Names == {"cd", "to", "ls", "get", "cat", "nope", "bad"}

OnMonchPath == {"cd", "to", "ls", "get"}
OnSystemPath == {"cd", "ls", "cat"}

\* which::which_in(bin_name, env::var_os(var), current_dir): the path found, or
\* the error of the `which` crate.
which_in(bin_name, var) ==
    IF var = "MONCH_PATH" THEN
        IF bin_name = "bad" THEN [found |-> FALSE, error |-> "CannotCanonicalize"]
        ELSE IF bin_name \in OnMonchPath THEN [found |-> TRUE, error |-> ""]
        ELSE [found |-> FALSE, error |-> "CannotFindBinaryPath"]
    ELSE
        IF bin_name \in OnSystemPath THEN [found |-> TRUE, error |-> ""]
        ELSE [found |-> FALSE, error |-> "CannotFindBinaryPath"]

-----------------------------------------------------------------------------
(* exe.rs and builtin.rs: the Execute implementations *)

\* A Box<dyn Execute>: Cd, To or an ExternalExecutable with its binary and types.
Builtin(name) ==
    [kind |-> IF name = "cd" THEN "Cd" ELSE "To", binary |-> "builtin",
     input_type |-> "Nothing", output_type |-> "Nothing"]

\* A slip of ExternalExecutable::new: the defaults of a shell-path utility.
ExternalExecutable_new_cbor(binary) ==
    [kind |-> "External", binary |-> binary,
     input_type |-> "Cbor", output_type |-> "Cbor"]

\* ExternalExecutable::new
ExternalExecutable_new(binary) ==
    [kind |-> "External", binary |-> binary,
     input_type |-> "Any", output_type |-> "Unknown"]

\* To::parse_args
To_parse_args(args) ==
    IF Len(args) = 1 THEN Ty_from_str(args[1])
    ELSE [ok |-> FALSE, ty |-> "Nothing"]

\* Execute::input_type of Cd, To and ExternalExecutable
input_type(exe, args) ==
    IF exe.kind = "Cd" THEN "Nothing"
    ELSE IF exe.kind = "To" THEN "Cbor"
    ELSE exe.input_type

\* Execute::output_type of Cd, To and ExternalExecutable
output_type(exe, args) ==
    IF exe.kind = "Cd" THEN "Nothing"
    ELSE IF exe.kind = "To" THEN
        (IF To_parse_args(args).ok THEN To_parse_args(args).ty ELSE "Nothing")
    ELSE exe.output_type

-----------------------------------------------------------------------------
(* interpreter.rs: resolve_exe *)

ResolveOk(exe) == [ok |-> TRUE, exe |-> exe, err |-> Err("none")]
ResolveErr(e) == [ok |-> FALSE, exe |-> Builtin("cd"), err |-> e]

\* A slip of resolve_exe: the system path is searched before the shell path.
resolve_exe_system_first(bin_name) ==
    IF bin_name \in BUILTINS THEN ResolveOk(Builtin(bin_name))
    ELSE IF which_in(bin_name, "PATH").found
        THEN ResolveOk(ExternalExecutable_new("PATH"))
    ELSE IF which_in(bin_name, "MONCH_PATH").found
        THEN ResolveOk([ExternalExecutable_new("MONCH_PATH") EXCEPT
                          !.input_type = "Cbor", !.output_type = "Cbor"])
    ELSE ResolveErr(Error_ResolveBinary(bin_name))

\* A slip of resolve_exe: a name found nowhere is handed to the system anyway.
resolve_exe_fallback(bin_name) ==
    IF bin_name \in BUILTINS THEN ResolveOk(Builtin(bin_name))
    ELSE IF which_in(bin_name, "MONCH_PATH").found
        THEN ResolveOk([ExternalExecutable_new("MONCH_PATH") EXCEPT
                          !.input_type = "Cbor", !.output_type = "Cbor"])
    ELSE ResolveOk(ExternalExecutable_new("PATH"))

\* Interpreter::resolve_exe
resolve_exe(bin_name) ==
    IF bin_name \in BUILTINS THEN ResolveOk(Builtin(bin_name))
    ELSE
        LET monch == which_in(bin_name, "MONCH_PATH") IN
        IF ~monch.found /\ monch.error # "CannotFindBinaryPath"
            THEN ResolveErr(Error_ResolveBinary(bin_name))
        ELSE IF monch.found
            THEN ResolveOk([ExternalExecutable_new("MONCH_PATH") EXCEPT
                              !.input_type = "Cbor", !.output_type = "Cbor"])
        ELSE
            LET other == which_in(bin_name, "PATH") IN
            IF other.found THEN ResolveOk(ExternalExecutable_new("PATH"))
            ELSE ResolveErr(Error_ResolveBinary(bin_name))

-----------------------------------------------------------------------------
(* The file system the interpreter's working directory lives in.  A path is  *)
(* the sequence of its components below the root: <<>> is "/".  The root     *)
(* holds the directory "sub", the symbolic link "link" to /sub and the       *)
(* regular file "file"; /sub is empty.                                       *)

\* What the entry `name` of the canonical directory `dir` is.
Lookup(dir, name) ==
    IF dir = <<>> /\ name = "sub" THEN [ok |-> TRUE, path |-> <<"sub">>, is_dir |-> TRUE]
    ELSE IF dir = <<>> /\ name = "link" THEN [ok |-> TRUE, path |-> <<"sub">>, is_dir |-> TRUE]
    ELSE IF dir = <<>> /\ name = "file" THEN [ok |-> TRUE, path |-> <<"file">>, is_dir |-> FALSE]
    ELSE [ok |-> FALSE, path |-> <<>>, is_dir |-> FALSE]

\* Path resolution by the operating system, one component at a time from `at`.
RECURSIVE Walk(_, _)
Walk(at, comps) ==
    IF comps = <<>> \/ ~at.ok THEN at
    ELSE IF ~at.is_dir THEN [ok |-> FALSE, path |-> <<>>, is_dir |-> FALSE]
    ELSE IF Head(comps) = ".." THEN
        Walk([at EXCEPT !.path = IF at.path = <<>> THEN <<>>
                                  ELSE SubSeq(at.path, 1, Len(at.path) - 1)],
             Tail(comps))
    ELSE Walk(Lookup(at.path, Head(comps)), Tail(comps))

\* Path::canonicalize: Ok(path) or an io::Error.
canonicalize(path) == Walk([ok |-> TRUE, path |-> <<>>, is_dir |-> TRUE], path)

\* Path::is_dir
is_dir(path) == canonicalize(path).ok /\ canonicalize(path).is_dir

\* Path::join of a directory and an argument string.
join(workdir, dir) ==
    IF dir = "/" THEN <<>> ELSE Append(workdir, dir)

\* The file system is shared with other processes: what a path that was a
\* directory a moment ago is when it is looked at again.
FsNow == {"same", "gone", "file"}

\* A slip of set_current_dir: the path is committed as it was given.
set_current_dir_raw(new_cwd, now) ==
    LET c == canonicalize(new_cwd) IN
    IF now = "gone" \/ ~c.ok THEN [ok |-> FALSE, dir |-> <<>>, err |-> Error_Io]
    ELSE IF now = "file" \/ ~c.is_dir
        THEN [ok |-> FALSE, dir |-> <<>>, err |-> Error_BadWorkingDirectory]
    ELSE [ok |-> TRUE, dir |-> new_cwd, err |-> Err("none")]

\* Interpreter::set_current_dir: Ok with the new current_dir, or the Error;
\* `now` is what the file system holds at new_cwd when it is called.
set_current_dir(new_cwd, now) ==
    LET c == canonicalize(new_cwd) IN
    IF now = "gone" \/ ~c.ok THEN [ok |-> FALSE, dir |-> <<>>, err |-> Error_Io]
    ELSE IF now = "file" \/ ~c.is_dir
        THEN [ok |-> FALSE, dir |-> <<>>, err |-> Error_BadWorkingDirectory]
    ELSE [ok |-> TRUE, dir |-> c.path, err |-> Err("none")]

-----------------------------------------------------------------------------
(* ast.rs: the commands handed to the engine *)

Invocation(name, args) == [executable |-> name, arguments |-> args]

\* The invocations that appear at every position of a pipeline.
CoreInvocations ==
    { Invocation("cd", <<"sub">>), Invocation("to", <<"tty">>),
      Invocation("to", <<"cbor">>), Invocation("to", <<"text">>),
      Invocation("ls", <<>>), Invocation("cat", <<>>), Invocation("nope", <<>>) }

\* The invocations that appear only as a pipeline of one stage.
LoneInvocations ==
    { Invocation("cd", <<"..">>), Invocation("cd", <<"link">>),
      Invocation("cd", <<"file">>), Invocation("cd", <<"nodir">>),
      Invocation("cd", <<>>), Invocation("cd", <<"sub", "sub">>),
      Invocation("to", <<" Tty">>), Invocation("to", <<"any">>),
      Invocation("to", <<>>), Invocation("get", <<".name">>),
      Invocation("bad", <<>>) }

\* Vec<Invocation> of length n over the core invocations.
Pipelines(n) == [1..n -> CoreInvocations]

\* The ast::Command values the model evaluates.
Commands ==
    { [pipeline |-> p, stdin_redirect |-> i, stdout_redirect |-> o] :
        p \in (UNION { Pipelines(n) : n \in 0..MaxStages })
                \cup { <<inv>> : inv \in LoneInvocations },
        i \in {"None", "File"},
        o \in {"None", "TruncateFile", "AppendFile"} }

NoCommand == [pipeline |-> <<>>, stdin_redirect |-> "None", stdout_redirect |-> "None"]

-----------------------------------------------------------------------------
(* streams.rs: the handles *)

Handle(kind, id) == [kind |-> kind, id |-> id]
Null == Handle("Null", 0)

\* Streams and Streams::null()
Streams(in, out, err) == [stdin |-> in, stdout |-> out, stderr |-> err]
Streams_null == Streams(Null, Null, Null)

\* A ReadStream with the bytes still to be read from it, and a WriteStream
\* with the bytes written to it so far; broken marks a pipe or file whose
\* reads or writes the operating system fails.
ReadStream(kind, data, broken) == [kind |-> kind, data |-> data, broken |-> broken]
WriteStream(kind, data, broken) == [kind |-> kind, data |-> data, broken |-> broken]
ReadStream_Null == ReadStream("Null", <<>>, FALSE)
WriteStream_Null == WriteStream("Null", <<>>, FALSE)

\* The operating-system descriptors a set of handles stands for.
Descriptors(hs) == { h \in hs : h.kind # "Null" }
StreamsHandles(st) == Descriptors({st.stdin, st.stdout, st.stderr})

NoEffects ==
    [spawned |-> 0, workers |-> 0, executed |-> <<>>, waited |-> <<>>,
     files |-> {}, pipes |-> 0, failed |-> "", realized |-> FALSE,
     checked |-> <<>>, spawn_failed |-> FALSE, diagnosed |-> {}, raced |-> {}]

-----------------------------------------------------------------------------
(* monch_io: the records utilities exchange.  A record is a CBOR Value; the  *)
(* wire is a sequence of bytes (numbers 0..255).  The model speaks the part  *)
(* of CBOR its records need: small unsigned integers (one byte, 0..23),      *)
(* text (96 + length, then the characters), arrays (128 + length, then the   *)
(* items), maps (160 + length, then keys and values), tags (192 + tag, then  *)
(* the tagged item) and null (246).  The byte 255 begins no item.            *)

Integer(n) == [t |-> "Integer", v |-> n]
Text(s) == [t |-> "Text", v |-> s]
Array(a) == [t |-> "Array", v |-> a]
Map(m) == [t |-> "Map", v |-> m]
Tag(tag, x) == [t |-> "Tag", v |-> <<tag, x>>]
Value_Null == [t |-> "Null", v |-> 0]

\* The concatenation of a sequence of byte sequences.
RECURSIVE concat(_)
concat(ss) == IF ss = <<>> THEN <<>> ELSE Head(ss) \o concat(Tail(ss))

\* A slip of the encoder: an array is written without its length.
RECURSIVE encode_no_length(_)
encode_no_length(v) ==
    IF v.t = "Integer" THEN <<v.v>>
    ELSE IF v.t = "Text" THEN <<96 + Len(v.v)>> \o v.v
    ELSE IF v.t = "Array" THEN
        <<128>> \o concat([i \in 1..Len(v.v) |-> encode_no_length(v.v[i])])
    ELSE IF v.t = "Map" THEN
        <<160 + Len(v.v)>> \o
        concat([i \in 1..Len(v.v) |->
                   encode_no_length(v.v[i][1]) \o encode_no_length(v.v[i][2])])
    ELSE IF v.t = "Tag" THEN <<192 + v.v[1]>> \o encode_no_length(v.v[2])
    ELSE <<246>>

\* ciborium::ser::into_writer: the bytes of one record.
RECURSIVE encode(_)
encode(v) ==
    IF v.t = "Integer" THEN <<v.v>>
    ELSE IF v.t = "Text" THEN <<96 + Len(v.v)>> \o v.v
    ELSE IF v.t = "Array" THEN
        <<128 + Len(v.v)>> \o concat([i \in 1..Len(v.v) |-> encode(v.v[i])])
    ELSE IF v.t = "Map" THEN
        <<160 + Len(v.v)>> \o
        concat([i \in 1..Len(v.v) |-> encode(v.v[i][1]) \o encode(v.v[i][2])])
    ELSE IF v.t = "Tag" THEN <<192 + v.v[1]>> \o encode(v.v[2])
    ELSE <<246>>

\* What pulling one item off the input gives: the item and the bytes after
\* it ("ok"), or a failure and the bytes the reader is left with: none when
\* the input ended inside the item ("eof"), those after the rejected byte or
\* text when the bytes are no item ("bad").
Pulled(st, val, rest) == [st |-> st, val |-> val, rest |-> rest]

\* ciborium::de::from_reader on the bytes b the reader still holds.
RECURSIVE decode(_)
RECURSIVE decode_items(_, _)
decode(b) ==
    IF b = <<>> THEN Pulled("eof", Value_Null, <<>>)
    ELSE LET h == Head(b)
             r == Tail(b)
         IN  IF h < 24 THEN Pulled("ok", Integer(h), r)
             ELSE IF h \in 96..119 THEN
                 LET n == h - 96 IN
                 IF Len(r) < n THEN Pulled("eof", Value_Null, <<>>)
                 ELSE IF \E i \in 1..n : r[i] >= 128      \* not UTF-8
                     THEN Pulled("bad", Value_Null, SubSeq(r, n + 1, Len(r)))
                 ELSE Pulled("ok", Text(SubSeq(r, 1, n)), SubSeq(r, n + 1, Len(r)))
             ELSE IF h \in 128..151 THEN
                 LET e == decode_items(r, h - 128) IN
                 IF e.st = "ok" THEN Pulled("ok", Array(e.val), e.rest) ELSE e
             ELSE IF h \in 160..183 THEN
                 LET e == decode_items(r, 2 * (h - 160)) IN
                 IF e.st = "ok"
                    THEN Pulled("ok",
                                Map([i \in 1..(h - 160) |->
                                        <<e.val[2 * i - 1], e.val[2 * i]>>]),
                                e.rest)
                    ELSE e
             ELSE IF h \in 192..215 THEN
                 LET e == decode(r) IN
                 IF e.st = "ok" THEN Pulled("ok", Tag(h - 192, e.val), e.rest) ELSE e
             ELSE IF h = 246 THEN Pulled("ok", Value_Null, r)
             ELSE Pulled("bad", Value_Null, r)

\* The n items an array or a map announced.
decode_items(b, n) ==
    IF n = 0 THEN Pulled("ok", <<>>, b)
    ELSE LET e == decode(b) IN
         IF e.st # "ok" THEN e
         ELSE LET f == decode_items(e.rest, n - 1) IN
              IF f.st # "ok" THEN f
              ELSE Pulled("ok", <<e.val>> \o f.val, f.rest)

\* The utility process: whether it runs, how many records it has written
\* whole, its exit status once it has exited, whether it printed a diagnostic
\* to standard error, how its last put! went, and the bytes of the record
\* whose write failed that reached the output.
Util(state, written, status, diag, outcome, partial) ==
    [state |-> state, written |-> written, status |-> status, diag |-> diag,
     outcome |-> outcome, partial |-> partial]

NotFed == [open |-> FALSE, junk |-> <<>>]
NotSelected == [done |-> FALSE, val |-> Value_Null]

\* No utility is running and nothing is being decoded.
CodecIdle ==
    /\ records = <<>>
    /\ util = Util("exited", 0, 0, FALSE, "Ok", <<>>)
    /\ wire = <<>>
    /\ fed = NotFed
    /\ unread = <<>>
    /\ yielded = <<>>

\* No data path is being evaluated.
PathIdle ==
    /\ value = Value_Null
    /\ data_path = <<>>
    /\ selected = NotSelected

\* No `to` stage is running and no Streams are set up for one.
NotRun == [state |-> "exited"]
ToIdle ==
    /\ to_ios = <<>>
    /\ to_run = NotRun

\* No REPL is running.
NoLine == [kind |-> "none", text |-> <<>>, parse |-> FALSE, eval |-> NoResult]
NoRepl == [state |-> "ended"]
ReplIdle ==
    /\ last_exit = SUCCESS
    /\ repl = NoRepl

\* No command line is being parsed; None of Option<ReadRedirect> and of
\* Option<WriteRedirect>.
NoRedirect == [kind |-> "None", file |-> ""]
NotParsed ==
    [done |-> FALSE, ok |-> FALSE, error |-> "",
     command |-> [pipeline |-> <<>>, stdin_redirect |-> NoRedirect,
                  stdout_redirect |-> NoRedirect]]
ParserIdle ==
    /\ pairs = <<>>
    /\ parse_result = [done |-> FALSE]

\* Neither a `to` stage, nor the REPL, nor the parser is at work.
ShellIdle == ToIdle /\ ReplIdle /\ ParserIdle

-----------------------------------------------------------------------------
(* Interpreter::new *)

\* The interpreter between two commands; no utility of monch_io is running.
EngineIdle ==
    /\ pc = "idle"
    /\ cmd = NoCommand
    /\ stages = <<>>
    /\ ends = Streams_null
    /\ ios = <<>>
    /\ idx = 0
    /\ children = <<>>
    /\ exit_codes = <<>>
    /\ result = NoResult
    /\ engineHolds = {}
    /\ stageHolds = <<>>
    /\ effects = NoEffects

Init ==
    /\ cwd \in {<<>>, <<"sub">>}
    /\ cwd0 = cwd
    /\ EngineIdle
    /\ CodecIdle
    /\ PathIdle
    /\ ShellIdle

-----------------------------------------------------------------------------
(* Interpreter::eval_command, phases 1 to 3: stages, formatter, type-check *)

\* Interpreter::eval_term: a literal evaluates to a copy of its value.
eval_term(term) == term

Stage(command, exe, args) == [command |-> command, exe |-> exe, args |-> args]

\* The loop over cmd.pipeline: Ok(stages), or the first error of resolve_exe.
RECURSIVE prepare_stages(_, _)
prepare_stages(invs, acc) ==
    IF invs = <<>> THEN [ok |-> TRUE, stages |-> acc, err |-> Err("none")]
    ELSE
        LET inv == Head(invs)
            command == eval_term(inv.executable)
            args == [k \in 1..Len(inv.arguments) |-> eval_term(inv.arguments[k])]
            exe == resolve_exe(command)
        IN  IF ~exe.ok THEN [ok |-> FALSE, stages |-> acc, err |-> exe.err]
            ELSE prepare_stages(Tail(invs), Append(acc, Stage(command, exe.exe, args)))

\* A slip of the formatter rule: the stdout redirection is not consulted.
needs_formatter_any_redirect(stgs, c) ==
    LET final_stage == stgs[Len(stgs)] IN
    output_type(final_stage.exe, final_stage.args) = "Cbor"

\* The condition under which eval_command appends `to tty`.
needs_formatter(stgs, c) ==
    LET final_stage == stgs[Len(stgs)]
        final_type == output_type(final_stage.exe, final_stage.args)
    IN  final_type = "Cbor" /\ ~(c.stdout_redirect # "None")

\* The stage eval_command appends.
FormatterStage == Stage("to", Builtin("to"), <<"tty">>)

\* One examined pair of the type-check.
Verdict(i, l_output, r_input, ok) ==
    [l |-> i, l_ty |-> l_output, r_ty |-> r_input, ok |-> ok]

\* A slip of the type-check: the last adjacent pair is never examined.
RECURSIVE type_check_skip_last(_, _)
type_check_skip_last(stgs, i) ==
    IF i >= Len(stgs) - 1 THEN <<>>
    ELSE
        LET l_output == output_type(stgs[i].exe, stgs[i].args)
            r_input == input_type(stgs[i + 1].exe, stgs[i + 1].args)
        IN  IF ~can_connect(l_output, r_input)
                THEN <<Verdict(i, l_output, r_input, FALSE)>>
            ELSE <<Verdict(i, l_output, r_input, TRUE)>>
                     \o type_check_skip_last(stgs, i + 1)

\* A slip of the type-check: the loop goes on after a pair that does not
\* connect, so the pair it ends with is the rightmost failing one.
RECURSIVE type_check_rightmost(_, _)
type_check_rightmost(stgs, i) ==
    IF i >= Len(stgs) THEN <<>>
    ELSE
        LET l_output == output_type(stgs[i].exe, stgs[i].args)
            r_input == input_type(stgs[i + 1].exe, stgs[i + 1].args)
            v == Verdict(i, l_output, r_input, can_connect(l_output, r_input))
            rest == type_check_rightmost(stgs, i + 1)
        IN  IF ~v.ok /\ (rest = <<>> \/ rest[Len(rest)].ok)
                THEN <<v>>
            ELSE <<v>> \o rest

\* The type-check loop over stages.iter().tuple_windows() from pair i on: the
\* pairs it examines, in order, ending with the first pair that does not connect.
RECURSIVE type_check(_, _)
type_check(stgs, i) ==
    IF i >= Len(stgs) THEN <<>>
    ELSE
        LET l_output == output_type(stgs[i].exe, stgs[i].args)
            r_input == input_type(stgs[i + 1].exe, stgs[i + 1].args)
        IN  IF ~can_connect(l_output, r_input)
                THEN <<Verdict(i, l_output, r_input, FALSE)>>
            ELSE <<Verdict(i, l_output, r_input, TRUE)>> \o type_check(stgs, i + 1)

\* eval_command is entered with a command.
StartEval(c) ==
    /\ pc = "idle"
    /\ cmd' = c
    /\ cwd0' = cwd
    /\ IF Len(c.pipeline) < 1
          THEN pc' = "done" /\ result' = Ok(SUCCESS)
          ELSE pc' = "prepare" /\ result' = NoResult
    /\ UNCHANGED <<cwd, stages, ends, ios, idx, children, exit_codes,
                   engineHolds, stageHolds, effects>>

\* Phase 1: every invocation is evaluated and resolved.
PrepareStages ==
    /\ pc = "prepare"
    /\ LET r == prepare_stages(cmd.pipeline, <<>>) IN
       IF r.ok
          THEN /\ stages' = r.stages
               /\ pc' = "format"
               /\ UNCHANGED <<result, effects>>
          ELSE /\ result' = Failed(r.err)
               /\ pc' = "done"
               /\ effects' = [effects EXCEPT !.failed = "prepare"]
               /\ UNCHANGED stages
    /\ UNCHANGED <<cwd, cmd, ends, ios, idx, children, exit_codes,
                   engineHolds, stageHolds, cwd0>>

\* Phase 2: the formatter is appended where the rule asks for it.
InsertFormatter ==
    /\ pc = "format"
    /\ stages' = IF needs_formatter(stages, cmd)
                    THEN Append(stages, FormatterStage)
                    ELSE stages
    /\ effects' = [effects EXCEPT !.realized = TRUE]
    /\ pc' = "typecheck"
    /\ UNCHANGED <<cwd, cmd, ends, ios, idx, children, exit_codes, result,
                   engineHolds, stageHolds, cwd0>>

\* Phase 3: the static type-check of the realized pipeline.
TypeCheck ==
    /\ pc = "typecheck"
    /\ LET seen == type_check(stages, 1)
           last == seen[Len(seen)]
       IN  IF seen # <<>> /\ ~last.ok
              THEN /\ result' = Failed(Error_TypeMismatch(
                                    stages[last.l].command, last.l_ty,
                                    stages[last.l + 1].command, last.r_ty))
                   /\ pc' = "done"
                   /\ effects' = [effects EXCEPT !.failed = "typecheck", !.checked = seen]
              ELSE /\ pc' = "stdin"
                   /\ effects' = [effects EXCEPT !.checked = seen]
                   /\ UNCHANGED result
    /\ UNCHANGED <<cwd, cmd, stages, ends, ios, idx, children, exit_codes,
                   engineHolds, stageHolds, cwd0>>

-----------------------------------------------------------------------------
(* Interpreter::eval_command, phase 4: plumbing *)

\* A `?` on a failed step before the launch: eval_command returns the error and
\* every handle it had acquired is dropped.
Abort(e, eff) ==
    /\ result' = Failed(e)
    /\ pc' = "done"
    /\ engineHolds' = {}
    /\ effects' = eff
    /\ UNCHANGED <<ends, ios>>

\* A slip of the plumbing: the stdout end is evaluated before the stdin end,
\* so the target of a stdout redirection exists, and is truncated, when the
\* file of the stdin redirection turns out not to open.
PlumbStdin_after_stdout ==
    /\ pc = "stdin"
    /\ \E ok \in BOOLEAN :
         IF ~ok THEN Abort(Error_Io,
                           [effects EXCEPT !.failed = "stdin",
                               !.files = IF cmd.stdout_redirect = "TruncateFile"
                                            THEN @ \cup {"truncate_out"}
                                         ELSE IF cmd.stdout_redirect = "AppendFile"
                                            THEN @ \cup {"append_out"}
                                         ELSE @])
         ELSE LET h == IF cmd.stdin_redirect = "File"
                          THEN Handle("InFile", 0)
                          ELSE Handle("StdinDup", 0)
              IN  /\ ends' = [ends EXCEPT !.stdin = h]
                  /\ engineHolds' = engineHolds \cup {h}
                  /\ effects' = IF cmd.stdin_redirect = "File"
                                   THEN [effects EXCEPT !.files = @ \cup {"open_in"}]
                                   ELSE effects
                  /\ pc' = "stdout"
                  /\ UNCHANGED <<result, ios>>
    /\ UNCHANGED <<cwd, cmd, stages, idx, children, exit_codes, stageHolds, cwd0>>

\* pipeline_ends.stdin: eval_read_redirect, or a duplicate of the shell's stdin.
PlumbStdin ==
    /\ pc = "stdin"
    /\ \E ok \in BOOLEAN :
         IF ~ok THEN Abort(Error_Io, [effects EXCEPT !.failed = "stdin"])
         ELSE LET h == IF cmd.stdin_redirect = "File"
                          THEN Handle("InFile", 0)
                          ELSE Handle("StdinDup", 0)
              IN  /\ ends' = [ends EXCEPT !.stdin = h]
                  /\ engineHolds' = engineHolds \cup {h}
                  /\ effects' = IF cmd.stdin_redirect = "File"
                                   THEN [effects EXCEPT !.files = @ \cup {"open_in"}]
                                   ELSE effects
                  /\ pc' = "stdout"
                  /\ UNCHANGED <<result, ios>>
    /\ UNCHANGED <<cwd, cmd, stages, idx, children, exit_codes, stageHolds, cwd0>>

\* A slip of the stdout end: a failed open is swallowed and the null sink used.
PlumbStdoutLenient ==
    /\ pc = "stdout"
    /\ \E ok \in BOOLEAN :
         LET h == IF ~ok THEN Null
                  ELSE IF cmd.stdout_redirect # "None" THEN Handle("OutFile", 0)
                  ELSE Handle("StdoutDup", 0)
         IN  /\ ends' = [ends EXCEPT !.stdout = h]
             /\ engineHolds' = engineHolds \cup Descriptors({h})
             /\ effects' = IF ~ok THEN [effects EXCEPT !.failed = "stdout"]
                           ELSE IF cmd.stdout_redirect = "TruncateFile"
                               THEN [effects EXCEPT !.files = @ \cup {"truncate_out"}]
                           ELSE IF cmd.stdout_redirect = "AppendFile"
                               THEN [effects EXCEPT !.files = @ \cup {"append_out"}]
                           ELSE effects
             /\ pc' = "stderr"
             /\ UNCHANGED <<result, ios>>
    /\ UNCHANGED <<cwd, cmd, stages, idx, children, exit_codes, stageHolds, cwd0>>

\* pipeline_ends.stdout: eval_write_redirect (create, and truncate or append),
\* or a duplicate of the shell's stdout.
PlumbStdout ==
    /\ pc = "stdout"
    /\ \E ok \in BOOLEAN :
         IF ~ok THEN Abort(Error_Io, [effects EXCEPT !.failed = "stdout"])
         ELSE LET h == IF cmd.stdout_redirect # "None"
                          THEN Handle("OutFile", 0)
                          ELSE Handle("StdoutDup", 0)
              IN  /\ ends' = [ends EXCEPT !.stdout = h]
                  /\ engineHolds' = engineHolds \cup {h}
                  /\ effects' = IF cmd.stdout_redirect = "TruncateFile"
                                   THEN [effects EXCEPT !.files = @ \cup {"truncate_out"}]
                                ELSE IF cmd.stdout_redirect = "AppendFile"
                                   THEN [effects EXCEPT !.files = @ \cup {"append_out"}]
                                ELSE effects
                  /\ pc' = "stderr"
                  /\ UNCHANGED <<result, ios>>
    /\ UNCHANGED <<cwd, cmd, stages, idx, children, exit_codes, stageHolds, cwd0>>

\* pipeline_ends.stderr: a duplicate of the shell's stderr.
PlumbStderr ==
    /\ pc = "stderr"
    /\ \E ok \in BOOLEAN :
         IF ~ok THEN Abort(Error_Io, [effects EXCEPT !.failed = "stderr"])
         ELSE LET h == Handle("StderrDup", 1)
              IN  /\ ends' = [ends EXCEPT !.stderr = h]
                  /\ engineHolds' = engineHolds \cup {h}
                  /\ pc' = "chain"
                  /\ UNCHANGED <<result, ios, effects>>
    /\ UNCHANGED <<cwd, cmd, stages, idx, children, exit_codes, stageHolds, cwd0>>

\* A slip of make_stream_chain: the write half goes to the stage that reads.
RECURSIVE attach_pipes_crossed(_, _, _)
attach_pipes_crossed(chain, i, length) ==
    IF i > length THEN chain
    ELSE attach_pipes_crossed([chain EXCEPT ![i].stdin = Handle("PipeR", i - 1),
                                            ![i].stdout = Handle("PipeW", i - 1)],
                              i + 1, length)

\* The pipe loop of make_stream_chain: stage i reads pipe i - 1, which stage
\* i - 1 writes.
RECURSIVE attach_pipes(_, _, _)
attach_pipes(chain, i, length) ==
    IF i > length THEN chain
    ELSE attach_pipes([chain EXCEPT ![i].stdin = Handle("PipeR", i - 1),
                                    ![i - 1].stdout = Handle("PipeW", i - 1)],
                      i + 1, length)

\* Interpreter::make_stream_chain when every system call succeeds.
make_stream_chain(e, length) ==
    LET nulls == [i \in 1..length |-> Streams_null]
        piped == attach_pipes(nulls, 2, length)
        errs == [i \in 1..length |->
                    IF i = 1 THEN [piped[i] EXCEPT !.stderr = e.stderr]
                    ELSE [piped[i] EXCEPT !.stderr = Handle("StderrDup", i)]]
        first == [errs EXCEPT ![1].stdin = e.stdin]
    IN  [first EXCEPT ![length].stdout = e.stdout]

\* Every handle of a vector of Streams.
ChainHandles(chain) == UNION { StreamsHandles(chain[i]) : i \in 1..Len(chain) }

\* io_streams = make_stream_chain(pipeline_ends, stages.len())?: the pipes are
\* created one by one, then stderr is duplicated for every stage but the first.
MakeStreamChain ==
    /\ pc = "chain"
    /\ LET length == Len(stages) IN
       \/ \E made \in 0..(length - 2) :        \* stream_pipe fails after `made` pipes
            Abort(Error_Io, [effects EXCEPT !.failed = "chain", !.pipes = made])
       \/ /\ length > 1                         \* a try_clone of stderr fails
          /\ Abort(Error_Io, [effects EXCEPT !.failed = "chain", !.pipes = length - 1])
       \/ /\ ios' = make_stream_chain(ends, length)
          /\ engineHolds' = ChainHandles(ios')
          /\ effects' = [effects EXCEPT !.pipes = length - 1]
          /\ pc' = "launch"
          /\ UNCHANGED <<result, ends>>
    /\ UNCHANGED <<cwd, cmd, stages, idx, children, exit_codes, stageHolds, cwd0>>

-----------------------------------------------------------------------------
(* Interpreter::eval_command, phase 5: launch *)

\* A handle behind a Box<dyn Wait>: a spawned process::Child, the JoinHandle of
\* a worker thread, or an ImmediateProc; `dir` is the directory a child runs in
\* and `target` the type a `to` worker converts to.
ChildProc(dir) ==
    [kind |-> "Child", state |-> "running", exit |-> SUCCESS, dir |-> dir,
     target |-> "Nothing"]
WorkerThread(target) ==
    [kind |-> "Thread", state |-> "running", exit |-> SUCCESS, dir |-> <<>>,
     target |-> target]
ImmediateProc(e) ==
    [kind |-> "Immediate", state |-> "exited", exit |-> e, dir |-> <<>>,
     target |-> "Nothing"]

\* A slip of the launch: the stage is given duplicates and the engine keeps its own.
hand_over_keeps(held, st) == held

\* The Streams of a stage are moved into execute: the engine owns them no more.
hand_over(held, st) == held \ StreamsHandles(st)

\* The error ExternalExecutable::execute returns when Command::spawn fails:
\* `cmd.spawn()?` converts the io::Error with From<io::Error> for Error.
spawn_error == Error_Io

\* A slip of the launch loop: the collecting of exits begins once the first
\* stage is launched.
Launched_eager(i, child, holds, eff) ==
    /\ children' = Append(children, child)
    /\ stageHolds' = Append(stageHolds, holds)
    /\ engineHolds' = hand_over(engineHolds, ios[i])
    /\ idx' = i
    /\ effects' = [eff EXCEPT !.executed = Append(@, i)]
    /\ pc' = "wait"
    /\ UNCHANGED result

\* execute returned Ok(handle) for stage i, whose streams are now owned by `holds`.
Launched(i, child, holds, eff) ==
    /\ children' = Append(children, child)
    /\ stageHolds' = Append(stageHolds, holds)
    /\ engineHolds' = hand_over(engineHolds, ios[i])
    /\ idx' = i
    /\ effects' = [eff EXCEPT !.executed = Append(@, i)]
    /\ pc' = IF i = Len(stages) THEN "wait" ELSE "launch"
    /\ UNCHANGED result

\* execute returned Err(e) for stage i: collect stops, eval_command returns the
\* error, and the streams of the stages not yet launched are dropped.
LaunchFailed(i, e, eff) ==
    /\ result' = Failed(e)
    /\ pc' = "done"
    /\ engineHolds' = {}
    /\ idx' = i
    /\ effects' = [eff EXCEPT !.executed = Append(@, i), !.failed = "launch"]
    /\ UNCHANGED <<children, stageHolds>>

\* A slip of Cd::execute: the new directory is validated but never committed.
ExecuteCd_uncommitted(i) ==
    LET args == stages[i].args IN
    /\ stages[i].exe.kind = "Cd"
    /\ IF Len(args) # 1 \/ ~is_dir(join(cwd, args[1]))
          THEN /\ \E wrote \in BOOLEAN :
                    IF wrote THEN Launched(i, ImmediateProc(FAILURE), {},
                                           [effects EXCEPT !.diagnosed = @ \cup {i}])
                    ELSE LaunchFailed(i, Error_Io, effects)
               /\ UNCHANGED cwd
          ELSE \E now \in FsNow :
               LET r == set_current_dir(join(cwd, args[1]), now) IN
               /\ UNCHANGED cwd
               /\ Launched(i, ImmediateProc(IF r.ok THEN SUCCESS ELSE as_exit(r.err)),
                           {}, IF now = "same" THEN effects
                               ELSE [effects EXCEPT !.raced = @ \cup {i}])

\* builtin.rs: Cd::execute.  effects.diagnosed collects the stages whose cd
\* wrote a diagnostic, effects.raced those whose target changed between the
\* is_dir test and set_current_dir.
ExecuteCd(i) ==
    LET args == stages[i].args IN
    /\ stages[i].exe.kind = "Cd"
    /\ IF Len(args) # 1 \/ ~is_dir(join(cwd, args[1]))
          THEN \* the diagnostic is written to the stage's stderr with `?`
               /\ \E wrote \in BOOLEAN :
                    IF wrote THEN Launched(i, ImmediateProc(FAILURE), {},
                                           [effects EXCEPT !.diagnosed = @ \cup {i}])
                    ELSE LaunchFailed(i, Error_Io, effects)
               /\ UNCHANGED cwd
          ELSE \E now \in FsNow :
               LET r == set_current_dir(join(cwd, args[1]), now) IN
               /\ cwd' = IF r.ok THEN r.dir ELSE cwd
               /\ Launched(i, ImmediateProc(IF r.ok THEN SUCCESS ELSE as_exit(r.err)),
                           {}, IF now = "same" THEN effects
                               ELSE [effects EXCEPT !.raced = @ \cup {i}])

\* builtin.rs: To::execute
ExecuteTo(i) ==
    LET parsed == To_parse_args(stages[i].args) IN
    /\ stages[i].exe.kind = "To"
    /\ IF ~parsed.ok
          THEN Launched(i, ImmediateProc(FAILURE), {}, effects)
          ELSE Launched(i, WorkerThread(parsed.ty), StreamsHandles(ios[i]),
                        [effects EXCEPT !.workers = @ + 1])
    /\ UNCHANGED cwd

\* A slip of ExternalExecutable::execute: the child is given the directory the
\* interpreter had when the command began, not the one it has now.
ExecuteExternal_stale_dir(i) ==
    /\ stages[i].exe.kind = "External"
    /\ \E spawned \in BOOLEAN :
         IF spawned
            THEN Launched(i, ChildProc(cwd0), StreamsHandles(ios[i]),
                          [effects EXCEPT !.spawned = @ + 1])
            ELSE LaunchFailed(i, spawn_error, [effects EXCEPT !.spawn_failed = TRUE])
    /\ UNCHANGED cwd

\* exe.rs: ExternalExecutable::execute
ExecuteExternal(i) ==
    /\ stages[i].exe.kind = "External"
    /\ \E spawned \in BOOLEAN :
         IF spawned
            THEN Launched(i, ChildProc(cwd), StreamsHandles(ios[i]),
                          [effects EXCEPT !.spawned = @ + 1])
            ELSE LaunchFailed(i, spawn_error, [effects EXCEPT !.spawn_failed = TRUE])
    /\ UNCHANGED cwd

\* One step of the launch loop: execute is called on the next stage.
Launch ==
    /\ pc = "launch"
    /\ idx < Len(stages)
    /\ \/ ExecuteCd(idx + 1)
       \/ ExecuteTo(idx + 1)
       \/ ExecuteExternal(idx + 1)
    /\ UNCHANGED <<cmd, stages, ends, ios, exit_codes, cwd0>>

-----------------------------------------------------------------------------
(* The launched stages *)

\* Whether a read on the stdin of launched stage i can return end-of-input: a
\* pipe is at end-of-input only once nobody holds its write half.
StdinAtEof(i) ==
    LET in == ios[i].stdin IN
    in.kind = "PipeR" =>
        /\ Handle("PipeW", in.id) \notin engineHolds
        /\ \A j \in 1..Len(stageHolds) : Handle("PipeW", in.id) \notin stageHolds[j]

\* The exits with which the running stage i can terminate now.  A child
\* process reports any status; the worker of `to` returns SUCCESS at the end
\* of its input and FAILURE on an error, and at once for a target it cannot
\* convert to.
PossibleExits(i) ==
    IF children[i].kind = "Child" THEN ChildExits
    ELSE IF children[i].target \in {"Tty", "Cbor"}
        THEN {FAILURE} \cup (IF StdinAtEof(i) THEN {SUCCESS} ELSE {})
    ELSE {FAILURE}

\* A running stage terminates; its descriptors are closed.
StageExit(i) ==
    /\ i \in 1..Len(children)
    /\ children[i].state = "running"
    /\ \E e \in PossibleExits(i) :
         children' = [children EXCEPT ![i].state = "exited", ![i].exit = e]
    /\ stageHolds' = [stageHolds EXCEPT ![i] = {}]
    /\ UNCHANGED <<cwd, pc, cmd, stages, ends, ios, idx, exit_codes, result,
                   engineHolds, effects, cwd0>>

-----------------------------------------------------------------------------
(* Interpreter::eval_command, phase 6: collect *)

\* One step of the wait loop: Wait::wait on the next handle, which blocks
\* until the stage has terminated.  Waiting on a child process can fail.
Wait ==
    /\ pc = "wait"
    /\ LET w == Len(exit_codes) + 1 IN
       /\ children[w].state = "exited"
       /\ \E ok \in BOOLEAN :
            IF ok
               THEN /\ exit_codes' = Append(exit_codes, children[w].exit)
                    /\ children' = [children EXCEPT ![w].state = "reaped"]
                    /\ effects' = [effects EXCEPT !.waited = Append(@, w)]
                    /\ pc' = IF w = Len(children) THEN "aggregate" ELSE "wait"
                    /\ UNCHANGED result
               ELSE /\ children[w].kind = "Child"
                    /\ result' = Failed(Error_ExecutionFailed)
                    /\ pc' = "done"
                    /\ effects' = [effects EXCEPT !.failed = "wait"]
                    /\ UNCHANGED <<exit_codes, children>>
    /\ UNCHANGED <<cwd, cmd, stages, ends, ios, idx, engineHolds, stageHolds, cwd0>>

\* The exit codes are reduced and eval_command returns.
Aggregate ==
    /\ pc = "aggregate"
    /\ result' = Ok(aggregate(exit_codes))
    /\ pc' = "done"
    /\ UNCHANGED <<cwd, cmd, stages, ends, ios, idx, children, exit_codes,
                   engineHolds, stageHolds, effects, cwd0>>

\* A slip of the return: the directory is put back to what it was when the
\* command began, as if the pipeline had run in a subshell.
Return_restores ==
    /\ pc = "done"
    /\ pc' = "idle"
    /\ cmd' = NoCommand
    /\ stages' = <<>>
    /\ ends' = Streams_null
    /\ ios' = <<>>
    /\ idx' = 0
    /\ children' = <<>>
    /\ exit_codes' = <<>>
    /\ result' = NoResult
    /\ engineHolds' = {}
    /\ stageHolds' = <<>>
    /\ effects' = NoEffects
    /\ cwd' = cwd0
    /\ cwd0' = cwd0

\* eval_command has returned to its caller: its locals are gone, and the
\* interpreter keeps its current directory.
Return ==
    /\ pc = "done"
    /\ pc' = "idle"
    /\ cmd' = NoCommand
    /\ stages' = <<>>
    /\ ends' = Streams_null
    /\ ios' = <<>>
    /\ idx' = 0
    /\ children' = <<>>
    /\ exit_codes' = <<>>
    /\ result' = NoResult
    /\ engineHolds' = {}
    /\ stageHolds' = <<>>
    /\ effects' = NoEffects
    /\ cwd0' = cwd
    /\ UNCHANGED cwd

-----------------------------------------------------------------------------

Next ==
    \/ (pc = "idle" /\ \E c \in Commands : StartEval(c)) /\ UNCHANGED ioVars
    \/ PrepareStages /\ UNCHANGED ioVars
    \/ InsertFormatter /\ UNCHANGED ioVars
    \/ TypeCheck /\ UNCHANGED ioVars
    \/ PlumbStdin /\ UNCHANGED ioVars
    \/ PlumbStdout /\ UNCHANGED ioVars
    \/ PlumbStderr /\ UNCHANGED ioVars
    \/ MakeStreamChain /\ UNCHANGED ioVars
    \/ Launch /\ UNCHANGED ioVars
    \/ \E i \in 1..(MaxStages + 2) : StageExit(i) /\ UNCHANGED ioVars
    \/ Wait /\ UNCHANGED ioVars
    \/ Aggregate /\ UNCHANGED ioVars
    \/ Return /\ UNCHANGED ioVars

Spec == Init /\ [][Next]_vars

-----------------------------------------------------------------------------
(* monch_io/src/lib.rs: a utility writes records with put!, and an          *)
(* InputParser decodes what it wrote.                                        *)

\* The most records a utility writes.
MaxRecords == 2

\* The most calls of InputParser::next on one input.
MaxCalls == 5

Records ==
    {Integer(0), Integer(1), Text(<<97>>), Array(<<>>), Array(<<Integer(1)>>),
     Map(<< <<Text(<<97>>), Integer(0)>> >>), Tag(1, Integer(0)), Value_Null}

RecordSeqs == UNION {[1..n -> Records] : n \in 0..MaxRecords}

\* Bytes that begin with no record, written to the same output by something
\* other than put!: a break, a break before the integer 1, two breaks, a
\* text that is not UTF-8 before the integer 0, and an array whose item is a
\* break before the integer 1.
Junk == {<<255>>, <<255, 1>>, <<255, 255>>, <<97, 129, 0>>, <<129, 255, 1>>}

\* How try_put! can end: Ok, ser::Error::Io with kind BrokenPipe or with
\* another kind, ser::Error::Value, or Error::ConstructValue from cbor!.
PutOutcomes == {"Ok", "BrokenPipe", "OtherIo", "Value", "ConstructValue"}

\* A slip of put!: a broken pipe is treated like every other failure.
put_strict(outcome) ==
    IF outcome # "Ok" THEN [exited |-> TRUE, status |-> 1, diag |-> TRUE]
    ELSE [exited |-> FALSE, status |-> 0, diag |-> FALSE]

\* put!: what the macro does with the result of try_put!.
put(outcome) ==
    IF outcome = "BrokenPipe" THEN [exited |-> TRUE, status |-> 0, diag |-> FALSE]
    ELSE IF outcome # "Ok" THEN [exited |-> TRUE, status |-> 1, diag |-> TRUE]
    ELSE [exited |-> FALSE, status |-> 0, diag |-> FALSE]

\* The utility puts its next record.  A write that fails with an I/O error
\* may have passed on some of the record's bytes, never all of them.
Put ==
    /\ util.state = "running"
    /\ util.written < Len(records)
    /\ \E outcome \in PutOutcomes :
         LET bytes == encode(records[util.written + 1])
             r == put(outcome)
         IN  IF ~r.exited
                THEN /\ wire' = wire \o bytes
                     /\ util' = [util EXCEPT !.written = @ + 1, !.outcome = outcome]
                ELSE \E k \in 0..(IF outcome \in {"BrokenPipe", "OtherIo"}
                                      THEN Len(bytes) - 1 ELSE 0) :
                       /\ wire' = wire \o SubSeq(bytes, 1, k)
                       /\ util' = Util("exited", util.written, r.status, r.diag,
                                       outcome, SubSeq(bytes, 1, k))
    /\ UNCHANGED <<records, fed, unread, yielded>>

\* Every record is written: main returns Ok(()).
Finish ==
    /\ util.state = "running"
    /\ util.written = Len(records)
    /\ util' = [util EXCEPT !.state = "exited"]
    /\ UNCHANGED <<records, wire, fed, unread, yielded>>

\* InputParser::new on the output of the utility, once it is closed.
InputParser_new ==
    /\ util.state = "exited"
    /\ ~fed.open
    /\ \E junk \in Junk \cup {<<>>} :
         /\ fed' = [open |-> TRUE, junk |-> junk]
         /\ unread' = wire \o junk
    /\ UNCHANGED <<records, util, wire, yielded>>

\* An Option<Result<T, Error>>.
Item(tag, val, err) == [tag |-> tag, val |-> val, err |-> err]
None_ == Item("None", Value_Null, "")

\* A slip of the parser: the end of the input inside a record is a clean stop.
item_of_lenient(e) ==
    IF e.st = "ok" THEN Item("Ok", e.val, "")
    ELSE IF e.st = "eof" THEN None_
    ELSE Item("Err", Value_Null, "Deserialize")

\* The item next returns for what from_reader gave.
item_of(e) ==
    IF e.st = "ok" THEN Item("Ok", e.val, "")
    ELSE Item("Err", Value_Null, "Deserialize")

\* A read of the input failed (fill_buf returned an error).
ReadFailed == \E i \in 1..Len(yielded) : yielded[i].err = "Io"

\* InputParser::next.  The reader fails at most once on one input.
InputParser_next ==
    /\ fed.open
    /\ Len(yielded) < MaxCalls
    /\ \/ /\ ~ReadFailed
          /\ yielded' = Append(yielded, Item("Err", Value_Null, "Io"))
          /\ UNCHANGED unread
       \/ IF unread = <<>>
             THEN /\ yielded' = Append(yielded, None_)
                  /\ UNCHANGED unread
             ELSE LET e == decode(unread) IN
                  /\ yielded' = Append(yielded, item_of(e))
                  /\ unread' = e.rest
    /\ UNCHANGED <<records, util, wire, fed>>

CodecInit ==
    /\ cwd = <<>>
    /\ cwd0 = <<>>
    /\ EngineIdle
    /\ PathIdle
    /\ ShellIdle
    /\ records \in RecordSeqs
    /\ util = Util("running", 0, 0, FALSE, "Ok", <<>>)
    /\ wire = <<>>
    /\ fed = NotFed
    /\ unread = <<>>
    /\ yielded = <<>>

CodecNext ==
    \/ Put /\ UNCHANGED <<engineVars, pathVars, shellVars>>
    \/ Finish /\ UNCHANGED <<engineVars, pathVars, shellVars>>
    \/ InputParser_new /\ UNCHANGED <<engineVars, pathVars, shellVars>>
    \/ InputParser_next /\ UNCHANGED <<engineVars, pathVars, shellVars>>

CodecSpec == CodecInit /\ [][CodecNext]_vars

-----------------------------------------------------------------------------
(* monch_io/src/path.rs: DataPath.  A path string is the sequence of its    *)
(* characters: 46 is `.`, 43 is `+`, 48 and 49 are the digits 0 and 1, 97  *)
(* and 98 are the letters a and b.                                           *)

\* str::split('.'): the segments of s, empty ones included; cur is the
\* segment being read.
RECURSIVE split(_, _)
split(s, cur) ==
    IF s = <<>> THEN <<cur>>
    ELSE IF Head(s) = 46 THEN <<cur>> \o split(Tail(s), <<>>)
    ELSE split(Tail(s), Append(cur, Head(s)))

\* u64::from_str on a segment of digits: its value.
RECURSIVE u64_from_str(_)
u64_from_str(part) ==
    IF part = <<>> THEN 0
    ELSE 10 * u64_from_str(SubSeq(part, 1, Len(part) - 1)) + (part[Len(part)] - 48)

\* A slip of Key: every segment is a text key.
Key_text_only(part) == Text(part)

\* One segment as a key: an Integer when u64::from_str accepts it (digits,
\* after an optional `+`, which is character 43), else Text.
Key(part) ==
    LET digits == IF part # <<>> /\ Head(part) = 43 THEN Tail(part) ELSE part IN
    IF digits # <<>> /\ \A i \in 1..Len(digits) : digits[i] \in 48..57
       THEN Integer(u64_from_str(digits))
       ELSE Text(part)

\* A slip of parse: the empty segments are kept.
parse_keep_empty(text) ==
    LET parts == split(text, <<>>)
    IN  [i \in 1..Len(parts) |->
            IF parts[i] = <<>> THEN Text(<<>>) ELSE Key(parts[i])]

\* DataPath::parse
parse(text) ==
    LET parts == SelectSeq(split(text, <<>>), LAMBDA part : part # <<>>)
    IN  [i \in 1..Len(parts) |-> Key(parts[i])]

\* A slip of the element taken from an array: the element that swap_remove
\* moves into the hole, the last one, is taken for the removed one.
swap_remove_moved(array, index) ==
    [item |-> array[Len(array)],
     left |-> [i \in 1..(Len(array) - 1) |->
                  IF i = index + 1 THEN array[Len(array)] ELSE array[i]]]

\* Vec::swap_remove(index), index counted from 0 and in range: the removed
\* element, and the vector that is left, in which the last element has taken
\* the removed one's place.
swap_remove(array, index) ==
    [item |-> array[index + 1],
     left |-> [i \in 1..(Len(array) - 1) |->
                  IF i = index + 1 THEN array[Len(array)] ELSE array[i]]]

\* A slip of get_from: unwrapping a tag uses up a key of the path.
RECURSIVE get_from_tag_consumes(_, _)
get_from_tag_consumes(p, val) ==
    IF p = <<>> THEN (IF val.t = "Tag" THEN get_from_tag_consumes(p, val.v[2]) ELSE val)
    ELSE IF val.t = "Tag" THEN get_from_tag_consumes(Tail(p), val.v[2])
    ELSE IF val.t = "Array" THEN
        IF Head(p).t = "Integer" /\ Head(p).v < Len(val.v)
           THEN get_from_tag_consumes(Tail(p), val.v[Head(p).v + 1])
           ELSE Value_Null
    ELSE IF val.t = "Map" THEN
        LET hits == {i \in 1..Len(val.v) : val.v[i][1] = Head(p)} IN
        get_from_tag_consumes(Tail(p),
            IF hits = {} THEN Value_Null
            ELSE val.v[CHOOSE i \in hits : \A j \in hits : i <= j][2])
    ELSE Value_Null

\* A slip of get_from: a scalar with keys of the path remaining is returned
\* as it is.
RECURSIVE get_from_scalar_kept(_, _)
get_from_scalar_kept(p, val) ==
    IF val.t = "Tag" THEN get_from_scalar_kept(p, val.v[2])
    ELSE IF p = <<>> THEN val
    ELSE IF val.t = "Array" THEN
        IF Head(p).t = "Integer" /\ Head(p).v < Len(val.v)
           THEN get_from_scalar_kept(Tail(p), val.v[Head(p).v + 1])
           ELSE Value_Null
    ELSE IF val.t = "Map" THEN
        LET hits == {i \in 1..Len(val.v) : val.v[i][1] = Head(p)} IN
        get_from_scalar_kept(Tail(p),
            IF hits = {} THEN Value_Null
            ELSE val.v[CHOOSE i \in hits : \A j \in hits : i <= j][2])
    ELSE val

\* A slip of get_from: of the entries of a map whose key equals the selector,
\* the last one is taken.
RECURSIVE get_from_last_entry(_, _)
get_from_last_entry(p, val) ==
    IF val.t = "Tag" THEN get_from_last_entry(p, val.v[2])
    ELSE IF p = <<>> THEN val
    ELSE IF val.t = "Array" THEN
        IF Head(p).t = "Integer" /\ Head(p).v < Len(val.v)
           THEN get_from_last_entry(Tail(p), swap_remove(val.v, Head(p).v).item)
           ELSE Value_Null
    ELSE IF val.t = "Map" THEN
        LET hits == {i \in 1..Len(val.v) : val.v[i][1] = Head(p)} IN
        get_from_last_entry(Tail(p),
            IF hits = {} THEN Value_Null
            ELSE val.v[CHOOSE i \in hits : \A j \in hits : i >= j][2])
    ELSE Value_Null

\* DataPath::get_from, p being the keys of the path (split_head takes the
\* first off).
RECURSIVE get_from(_, _)
get_from(p, val) ==
    IF val.t = "Tag" THEN get_from(p, val.v[2])
    ELSE IF p = <<>> THEN val
    ELSE IF val.t = "Array" THEN
        IF Head(p).t = "Integer" /\ Head(p).v < Len(val.v)
           THEN get_from(Tail(p), swap_remove(val.v, Head(p).v).item)
           ELSE Value_Null
    ELSE IF val.t = "Map" THEN
        LET hits == {i \in 1..Len(val.v) : val.v[i][1] = Head(p)} IN
        get_from(Tail(p),
            IF hits = {} THEN Value_Null
            ELSE val.v[CHOOSE i \in hits : \A j \in hits : i <= j][2])
    ELSE Value_Null

\* The records paths are evaluated against: scalars, an array, maps (one
\* with a key twice), and values tagged at the top and further down.
PathValues ==
    {Integer(1), Text(<<97>>), Value_Null,
     Array(<<Integer(0), Text(<<98>>)>>),
     Map(<< <<Text(<<97>>), Integer(1)>>, <<Text(<<97>>), Integer(0)>> >>),
     Map(<< <<Text(<<97>>), Array(<<Text(<<98>>), Integer(1)>>)>>,
            <<Integer(1), Text(<<97>>)>> >>),
     Tag(1, Text(<<97>>)),
     Tag(1, Tag(2, Array(<<Integer(0), Integer(1)>>))),
     Tag(1, Map(<< <<Text(<<97>>), Tag(2, Array(<<Tag(3, Text(<<98>>))>>))>> >>)),
     Array(<<Tag(2, Map(<< <<Text(<<98>>), Integer(1)>> >>)), Tag(1, Value_Null)>>)}

\* The path strings: "", ".", "..", "a", ".a", ".0", ".1", ".a.0", ".a..0.",
\* ".0.b", ".b.a", "a.1.1", ".+1", ".01", ".1a", "+.a", ".2" and ".1.b".
PathStrings ==
    {<<>>, <<46>>, <<46, 46>>, <<97>>, <<46, 97>>, <<46, 48>>, <<46, 49>>,
     <<46, 50>>, <<46, 49, 46, 98>>,
     <<46, 97, 46, 48>>, <<46, 97, 46, 46, 48, 46>>, <<46, 48, 46, 98>>,
     <<46, 98, 46, 97>>, <<97, 46, 49, 46, 49>>,
     <<46, 43, 49>>, <<46, 48, 49>>, <<46, 49, 97>>, <<43, 46, 97>>}

\* The path is evaluated against the record, as `get` does for each record.
Get ==
    /\ ~selected.done
    /\ selected' = [done |-> TRUE, val |-> get_from(parse(data_path), value)]
    /\ UNCHANGED <<value, data_path>>

PathInit ==
    /\ cwd = <<>>
    /\ cwd0 = <<>>
    /\ EngineIdle
    /\ CodecIdle
    /\ ShellIdle
    /\ value \in PathValues
    /\ data_path \in PathStrings
    /\ selected = NotSelected

PathNext == Get /\ UNCHANGED <<engineVars, codecVars, shellVars>>

PathSpec == PathInit /\ [][PathNext]_vars

-----------------------------------------------------------------------------
(* streams.rs: reading and writing a stream; cbor_display.rs; builtin.rs:   *)
(* the worker thread of `to`.  Text written to a stream is the sequence of  *)
(* its characters: 10 is the line feed.                                      *)

\* The most bytes one call of read returns.
MaxChunk == 2

\* ReadStream::try_clone and WriteStream::try_clone: a duplicate of the same
\* kind on the same file or pipe; Null clones as Null.
try_clone(s) ==
    IF s.kind = "Null" THEN [ok |-> TRUE, stream |-> s]
    ELSE IF s.broken THEN [ok |-> FALSE, stream |-> s]
    ELSE [ok |-> TRUE, stream |-> s]

\* io::Read for ReadStream, called with a buffer of n bytes.
ReadStream_read(s, n) ==
    IF s.kind = "Null" THEN [ok |-> TRUE, bytes |-> <<>>, stream |-> s]
    ELSE IF s.broken THEN [ok |-> FALSE, bytes |-> <<>>, stream |-> s]
    ELSE LET k == IF Len(s.data) < n THEN Len(s.data) ELSE n IN
         [ok |-> TRUE, bytes |-> SubSeq(s.data, 1, k),
          stream |-> [s EXCEPT !.data = SubSeq(s.data, k + 1, Len(s.data))]]

\* A slip of write: the null stream takes the whole buffer.
WriteStream_write_consumes(s, buf) ==
    IF s.kind = "Null" THEN [ok |-> TRUE, n |-> Len(buf), stream |-> s]
    ELSE IF s.broken THEN [ok |-> FALSE, n |-> 0, stream |-> s]
    ELSE [ok |-> TRUE, n |-> Len(buf), stream |-> [s EXCEPT !.data = @ \o buf]]

\* io::Write for WriteStream: the number of bytes taken from buf.
WriteStream_write(s, buf) ==
    IF s.kind = "Null" THEN [ok |-> TRUE, n |-> 0, stream |-> s]
    ELSE IF s.broken THEN [ok |-> FALSE, n |-> 0, stream |-> s]
    ELSE [ok |-> TRUE, n |-> Len(buf), stream |-> [s EXCEPT !.data = @ \o buf]]

\* io::Write::write_all, which writeln!, write! and io::copy write with: it
\* calls write until the buffer is used up, and fails with WriteZero when a
\* call takes no byte.
RECURSIVE write_all(_, _)
write_all(s, buf) ==
    IF buf = <<>> THEN [ok |-> TRUE, stream |-> s]
    ELSE LET w == WriteStream_write(s, buf) IN
         IF ~w.ok \/ w.n = 0 THEN [ok |-> FALSE, stream |-> w.stream]
         ELSE write_all(w.stream, SubSeq(buf, w.n + 1, Len(buf)))

\* A slip of io::copy: the first chunk read is not written.
RECURSIVE io_copy_drops(_, _)
io_copy_drops(r, w) ==
    LET rd == ReadStream_read(r, MaxChunk) IN
    IF ~rd.ok THEN [ok |-> FALSE, stdin |-> rd.stream, stdout |-> w]
    ELSE [ok |-> TRUE, stdin |-> ReadStream(r.kind, <<>>, r.broken), stdout |-> w]

\* io::copy(&mut ios.stdin, &mut ios.stdout)
RECURSIVE io_copy(_, _)
io_copy(r, w) ==
    LET rd == ReadStream_read(r, MaxChunk) IN
    IF ~rd.ok THEN [ok |-> FALSE, stdin |-> rd.stream, stdout |-> w]
    ELSE IF rd.bytes = <<>> THEN [ok |-> TRUE, stdin |-> rd.stream, stdout |-> w]
    ELSE LET wa == write_all(w, rd.bytes) IN
         IF ~wa.ok THEN [ok |-> FALSE, stdin |-> rd.stream, stdout |-> wa.stream]
         ELSE io_copy(rd.stream, wa.stream)

\* The items of an array or the entries of a map, rendered and separated by
\* ", "; format_cbor without its colours.
RECURSIVE format_cbor(_), format_items(_, _)
format_items(items, is_map) ==
    IF items = <<>> THEN <<>>
    ELSE (IF is_map
             THEN (IF Head(items)[1].t = "Text" THEN Head(items)[1].v \o <<58, 32>>
                   ELSE <<58, 32>> \o format_cbor(Head(items)[1]))
                  \o format_cbor(Head(items)[2])
             ELSE format_cbor(Head(items)))
         \o (IF Len(items) > 1 THEN <<44, 32>> ELSE <<>>)
         \o format_items(Tail(items), is_map)

\* cbor_display::format_cbor: the text written for a record.
format_cbor(val) ==
    IF val.t = "Integer" THEN <<48 + val.v>>
    ELSE IF val.t = "Text" THEN val.v
    ELSE IF val.t = "Null" THEN <<40, 110, 117, 108, 108, 41>>
    ELSE IF val.t = "Tag"
        THEN <<40, 116, 97, 103, 32, 48 + val.v[1], 41, 32>> \o format_cbor(val.v[2])
    ELSE IF val.t = "Array" THEN <<91>> \o format_items(val.v, FALSE) \o <<93>>
    ELSE <<123>> \o format_items(val.v, TRUE) \o <<125>>

\* The line a failing `to` writes to its stderr: "to:", then a line feed (the
\* rest of the message is left out).
diagnostic == <<116, 111, 58, 10>>

\* What the worker of `to` returns, the streams it leaves behind with it.
Worked(e, in, out, err) == [exit |-> e, ios |-> Streams(in, out, err)]

\* The worker for the target Tty: every record InputParser yields on stdin is
\* rendered to stdout, and a line feed written to stderr after it.
RECURSIVE to_tty(_)
to_tty(st) ==
    LET in == st.stdin
        failed == write_all(st.stderr, diagnostic).stream
    IN  IF in.kind # "Null" /\ in.broken THEN Worked(FAILURE, in, st.stdout, failed)
        ELSE IF in.data = <<>> THEN Worked(SUCCESS, in, st.stdout, st.stderr)
        ELSE LET d == decode(in.data)
                 rest == [in EXCEPT !.data = d.rest]
                 wr == write_all(st.stdout, format_cbor(d.val))
             IN  IF d.st # "ok" THEN Worked(FAILURE, rest, st.stdout, failed)
                 ELSE IF ~wr.ok THEN Worked(FAILURE, rest, wr.stream, failed)
                 ELSE to_tty(Streams(rest, wr.stream, write_all(st.stderr, <<10>>).stream))

\* A slip of the worker: a target it cannot convert to is passed through.
to_worker_lenient(target, st) ==
    IF target = "Tty" THEN to_tty(st)
    ELSE LET c == io_copy(st.stdin, st.stdout) IN
         Worked(IF c.ok THEN SUCCESS ELSE FAILURE, c.stdin, c.stdout, st.stderr)

\* The closure To::execute hands to thread::spawn.
to_worker(target, st) ==
    IF target = "Tty" THEN to_tty(st)
    ELSE IF target = "Cbor"
        THEN LET c == io_copy(st.stdin, st.stdout) IN
             Worked(IF c.ok THEN SUCCESS ELSE FAILURE, c.stdin, c.stdout, st.stderr)
    ELSE Worked(FAILURE, st.stdin, st.stdout, write_all(st.stderr, diagnostic).stream)

\* To::execute: the arguments are parsed; the worker is spawned, or the stage
\* has already exited with a failure.
To_execute ==
    LET target == To_parse_args(to_run.args) IN
    /\ to_run.state = "new"
    /\ IF target.ok
          THEN /\ to_run' = [to_run EXCEPT !.state = "running", !.target = target.ty]
               /\ UNCHANGED to_ios
          ELSE /\ to_run' = [to_run EXCEPT !.state = "exited", !.exit = FAILURE]
               /\ to_ios' = [to_ios EXCEPT
                                !.stderr = write_all(to_ios.stderr, diagnostic).stream]

\* The worker thread runs until it returns its exit.
To_worker ==
    LET w == to_worker(to_run.target, to_ios) IN
    /\ to_run.state = "running"
    /\ to_run' = [to_run EXCEPT !.state = "exited", !.exit = w.exit]
    /\ to_ios' = w.ios

\* The argument lists `to` is executed with.
ToArgs == {<<"cbor">>, <<"tty">>, <<"text">>, <<" Tty">>, <<"any">>, <<>>,
           <<"text", "any">>}

\* What is on the stdin of `to`: nothing, one record, two records, a record
\* cut short, a byte that begins no record, and bytes that are no records.
ToInputs ==
    {<<>>, encode(Integer(1)), encode(Text(<<97>>)) \o encode(Array(<<Integer(0)>>)),
     <<161, 97>>, <<255>>, <<1, 2, 3>>}

ToInit ==
    /\ cwd = <<>>
    /\ cwd0 = <<>>
    /\ EngineIdle
    /\ CodecIdle
    /\ PathIdle
    /\ ReplIdle
    /\ ParserIdle
    /\ \E in \in {ReadStream_Null} \cup
                 {ReadStream("Pipe", d, b) : d \in ToInputs, b \in BOOLEAN},
          out \in {WriteStream_Null, WriteStream("Pipe", <<>>, FALSE),
                   WriteStream("Pipe", <<>>, TRUE), WriteStream("File", <<>>, FALSE)},
          err \in {WriteStream_Null, WriteStream("Pipe", <<>>, FALSE)},
          args \in ToArgs :
             /\ to_ios = Streams(in, out, err)
             /\ to_run = [args |-> args, state |-> "new", exit |-> SUCCESS,
                          target |-> "Nothing", input |-> in.data]

ToNext ==
    \/ To_execute /\ UNCHANGED <<engineVars, codecVars, pathVars, replVars, parserVars>>
    \/ To_worker /\ UNCHANGED <<engineVars, codecVars, pathVars, replVars, parserVars>>

ToSpec == ToInit /\ [][ToNext]_vars

-----------------------------------------------------------------------------
(* bin/monch.rs: the REPL.  A line is the sequence of its characters: 32 is *)
(* the space, 9 the tab, 108 and 115 the letters l and s, 124 is `|`.       *)

\* The most calls of readline in one run of the REPL.
MaxLines == 3

\* str::trim: the line without the white space at its ends.
RECURSIVE trim(_)
trim(text) ==
    IF text = <<>> THEN <<>>
    ELSE IF Head(text) \in {32, 9} THEN trim(Tail(text))
    ELSE IF text[Len(text)] \in {32, 9} THEN trim(SubSeq(text, 1, Len(text) - 1))
    ELSE text

\* What readline returned last and, for a line, what the parser and the
\* engine made of it.
Line(kind, text, parses, eval) ==
    [kind |-> kind, text |-> text, parse |-> parses, eval |-> eval]

\* The lines a user types: "", " ", a space and a tab, "ls", " ls " and "|".
Lines == {<<>>, <<32>>, <<32, 9>>, <<108, 115>>, <<32, 108, 115, 32>>, <<124>>}

\* What Interpreter::eval_command returns to the REPL.
EvalResults ==
    {Ok(e) : e \in ChildExits} \cup
    {Failed(e) : e \in {Error_Io, Error_ExecutionFailed, Error_BadWorkingDirectory,
                        Error_ResolveBinary("nope"),
                        Error_TypeMismatch("cat", "Unknown", "to", "Cbor")}}

\* One more call of readline may be made.
Reading == repl.state = "reading" /\ repl.lines < MaxLines

\* readline returns a line that is empty once trimmed.
BlankLine ==
    /\ Reading
    /\ \E text \in Lines :
         /\ trim(text) = <<>>
         /\ last_exit' = SUCCESS
         /\ repl' = [repl EXCEPT !.line = Line("Ok", text, FALSE, NoResult),
                                 !.lines = @ + 1]

\* A slip of the REPL: a line that does not parse leaves last_exit as it was.
ParseError_forgets ==
    /\ Reading
    /\ \E text \in Lines :
         /\ trim(text) # <<>>
         /\ last_exit' = last_exit
         /\ repl' = [repl EXCEPT !.line = Line("Ok", text, FALSE, NoResult),
                                 !.lines = @ + 1, !.printed = @ + 1]

\* readline returns a line parse_command rejects: the error is printed.
ParseError ==
    /\ Reading
    /\ \E text \in Lines :
         /\ trim(text) # <<>>
         /\ last_exit' = BAD_SYNTAX
         /\ repl' = [repl EXCEPT !.line = Line("Ok", text, FALSE, NoResult),
                                 !.lines = @ + 1, !.printed = @ + 1]

\* readline returns a line parse_command accepts: the command is evaluated,
\* an error of the engine is printed, and the working directory of the
\* process is set to the interpreter's (a failure to do so is only printed).
Evaluate ==
    /\ Reading
    /\ \E text \in Lines, res \in EvalResults, dir \in {<<>>, <<"sub">>},
          moved \in BOOLEAN :
         /\ trim(text) # <<>>
         /\ last_exit' = IF res.tag = "Ok" THEN res.exit ELSE as_exit(res.err)
         /\ repl' = [repl EXCEPT
                        !.line = Line("Ok", text, TRUE, res),
                        !.lines = @ + 1,
                        !.evals = @ + 1,
                        !.printed = @ + (IF res.tag = "Err" THEN 1 ELSE 0)
                                      + (IF moved THEN 0 ELSE 1),
                        !.dir = dir,
                        !.host_dir = IF moved THEN dir ELSE @]

\* A slip of the REPL: an interrupt is treated like a blank line, and
\* last_exit is reset to success.
Interrupted_resets ==
    /\ Reading
    /\ last_exit' = SUCCESS
    /\ repl' = [repl EXCEPT !.line = Line("Interrupted", <<>>, FALSE, NoResult),
                            !.lines = @ + 1]

\* readline is interrupted: the loop continues.
Interrupted ==
    /\ Reading
    /\ last_exit' = last_exit
    /\ repl' = [repl EXCEPT !.line = Line("Interrupted", <<>>, FALSE, NoResult),
                            !.lines = @ + 1]

\* readline reports the end of the input: the loop ends.
Eof ==
    /\ repl.state = "reading"
    /\ last_exit' = last_exit
    /\ repl' = [repl EXCEPT !.line = Line("Eof", <<>>, FALSE, NoResult),
                            !.state = "ended"]

\* readline fails otherwise: the error is printed and the loop ends.
ReadlineFailed ==
    /\ repl.state = "reading"
    /\ last_exit' = last_exit
    /\ repl' = [repl EXCEPT !.line = Line("Err", <<>>, FALSE, NoResult),
                            !.state = "ended", !.printed = @ + 1]

ReplInit ==
    /\ cwd = <<>>
    /\ cwd0 = <<>>
    /\ EngineIdle
    /\ CodecIdle
    /\ PathIdle
    /\ ToIdle
    /\ ParserIdle
    /\ last_exit = SUCCESS
    /\ \E dir \in {<<>>, <<"sub">>} :
         repl = [state |-> "reading", line |-> NoLine, lines |-> 0, evals |-> 0,
                 printed |-> 0, dir |-> dir, host_dir |-> dir]

ReplNext ==
    \/ BlankLine /\ UNCHANGED <<engineVars, codecVars, pathVars, toVars, parserVars>>
    \/ ParseError /\ UNCHANGED <<engineVars, codecVars, pathVars, toVars, parserVars>>
    \/ Evaluate /\ UNCHANGED <<engineVars, codecVars, pathVars, toVars, parserVars>>
    \/ Interrupted /\ UNCHANGED <<engineVars, codecVars, pathVars, toVars, parserVars>>
    \/ Eof /\ UNCHANGED <<engineVars, codecVars, pathVars, toVars, parserVars>>
    \/ ReadlineFailed /\ UNCHANGED <<engineVars, codecVars, pathVars, toVars, parserVars>>

ReplSpec == ReplInit /\ [][ReplNext]_vars

-----------------------------------------------------------------------------
(* monch_syntax/src/parser.rs: from the parse tree of a command line to the *)
(* ast::Command.  The parse tree of a Command is the sequence of its        *)
(* Invocation pairs; the inner pairs of an Invocation are the Term of the   *)
(* executable and then Terms, ReadRedirects and WriteRedirects.             *)

\* The most invocations in one command line.
MaxInvocations == 3

\* A pair of the parse tree: its rule, for a WriteRedirect the rule inside
\* it, and the text of its term.
Pair(rule, inner, text) == [rule |-> rule, inner |-> inner, text |-> text]

\* What follows the executable in an invocation: an argument, `<in`, `>out`
\* or `>>log`.
InnerPairs ==
    {Pair("Term", "BareTerm", "a"), Pair("ReadRedirect", "RRedirFile", "in"),
     Pair("WriteRedirect", "WRedirTruncateFile", "out"),
     Pair("WriteRedirect", "WRedirAppendFile", "log")}

\* The inner pairs of the Invocation pairs parsed: an executable and up to
\* two pairs after it.
InvocationPairs ==
    {<<Pair("Term", "BareTerm", "ls")>> \o rest :
        rest \in {<<>>} \cup {<<p>> : p \in InnerPairs}
                 \cup {<<p, q>> : p \in InnerPairs, q \in InnerPairs}}

\* Parser::p_read_redirect and Parser::p_write_redirect
p_read_redirect(pair) == [kind |-> "File", file |-> pair.text]
p_write_redirect(pair) ==
    [kind |-> IF pair.inner = "WRedirTruncateFile" THEN "TruncateFile" ELSE "AppendFile",
     file |-> pair.text]

\* What p_invocation has gathered so far, or the error it returned.
Gathered(args, rd, wr, error) ==
    [ok |-> error = "", arguments |-> args, read_redirect |-> rd,
     write_redirect |-> wr, error |-> error]

\* A slip of p_invocation: an input redirection is taken wherever it stands.
RECURSIVE gather_any_input(_, _, _, _)
gather_any_input(inner, can_redirect_input, can_redirect_output, acc) ==
    IF inner = <<>> THEN acc
    ELSE LET pair == Head(inner) IN
         IF pair.rule = "Term"
            THEN gather_any_input(Tail(inner), can_redirect_input, can_redirect_output,
                        [acc EXCEPT !.arguments = Append(@, pair.text)])
         ELSE IF pair.rule = "ReadRedirect"
            THEN gather_any_input(Tail(inner), can_redirect_input, can_redirect_output,
                        [acc EXCEPT !.read_redirect = p_read_redirect(pair)])
         ELSE IF ~can_redirect_output \/ acc.write_redirect.kind # "None"
            THEN [acc EXCEPT !.ok = FALSE, !.error = "output"]
         ELSE gather_any_input(Tail(inner), can_redirect_input, can_redirect_output,
                        [acc EXCEPT !.write_redirect = p_write_redirect(pair)])

\* The loop of p_invocation over the pairs after the executable.
RECURSIVE gather(_, _, _, _)
gather(inner, can_redirect_input, can_redirect_output, acc) ==
    IF inner = <<>> THEN acc
    ELSE LET pair == Head(inner) IN
         IF pair.rule = "Term"
            THEN gather(Tail(inner), can_redirect_input, can_redirect_output,
                        [acc EXCEPT !.arguments = Append(@, pair.text)])
         ELSE IF pair.rule = "ReadRedirect" /\ can_redirect_input
            THEN IF acc.read_redirect.kind = "None"
                    THEN gather(Tail(inner), can_redirect_input, can_redirect_output,
                                [acc EXCEPT !.read_redirect = p_read_redirect(pair)])
                    ELSE [acc EXCEPT !.ok = FALSE,
                                     !.error = "found conflicting input redirection"]
         ELSE IF pair.rule = "ReadRedirect"
            THEN [acc EXCEPT !.ok = FALSE, !.error = "cannot redirect input"]
         ELSE IF can_redirect_output
            THEN IF acc.write_redirect.kind = "None"
                    THEN gather(Tail(inner), can_redirect_input, can_redirect_output,
                                [acc EXCEPT !.write_redirect = p_write_redirect(pair)])
                    ELSE [acc EXCEPT !.ok = FALSE,
                                     !.error = "found conflicting output redirection"]
         ELSE [acc EXCEPT !.ok = FALSE, !.error = "cannot redirect output"]

\* Parser::p_invocation: the invocation and the redirections written on it.
p_invocation(input, can_redirect_input, can_redirect_output) ==
    LET g == gather(Tail(input), can_redirect_input, can_redirect_output,
                    Gathered(<<>>, NoRedirect, NoRedirect, ""))
    IN  [ok |-> g.ok, error |-> g.error,
         inv |-> Invocation(Head(input).text, g.arguments),
         stdin_redir |-> g.read_redirect, stdout_redir |-> g.write_redirect]

\* The loop of p_command from the i-th invocation pair on.
RECURSIVE p_command_from(_, _, _)
p_command_from(input, i, acc) ==
    IF i > Len(input) THEN acc
    ELSE LET r == p_invocation(input[i], i = 1, i = Len(input)) IN
         IF ~r.ok THEN [acc EXCEPT !.ok = FALSE, !.error = r.error]
         ELSE p_command_from(input, i + 1,
                [acc EXCEPT
                    !.command.pipeline = Append(@, r.inv),
                    !.command.stdin_redirect =
                        IF r.stdin_redir.kind # "None" THEN r.stdin_redir ELSE @,
                    !.command.stdout_redirect =
                        IF r.stdout_redir.kind # "None" THEN r.stdout_redir ELSE @])

\* Parser::p_command
p_command(input) ==
    p_command_from(input, 1, [done |-> TRUE, ok |-> TRUE, error |-> "",
                              command |-> NotParsed.command])

\* parse_command hands the parse tree to p_command.
Parse ==
    /\ ~parse_result.done
    /\ parse_result' = p_command(pairs)
    /\ UNCHANGED pairs

ParserInit ==
    /\ cwd = <<>>
    /\ cwd0 = <<>>
    /\ EngineIdle
    /\ CodecIdle
    /\ PathIdle
    /\ ToIdle
    /\ ReplIdle
    /\ pairs \in UNION {[1..n -> InvocationPairs] : n \in 1..MaxInvocations}
    /\ parse_result = NotParsed

ParserNext == Parse /\ UNCHANGED <<engineVars, codecVars, pathVars, toVars, replVars>>

ParserSpec == ParserInit /\ [][ParserNext]_vars

-----------------------------------------------------------------------------
(* The launched stages under the scheduling of the operating system: a      *)
(* second specification of eval_command in which a stage terminates only    *)
(* when it has a reason to, and in which the engine's thread and every      *)
(* launched stage keep being scheduled.                                      *)

\* Whether the launched stage i reads its stdin: the worker of `to` does for
\* the targets it converts to, and of the programs `cat` does and `ls` does not.
Reads(i) ==
    IF children[i].kind = "Thread" THEN children[i].target \in {"Tty", "Cbor"}
    ELSE stages[i].command = "cat"

\* Whether a write of stage i to its stdout fails with a broken pipe: the
\* stdout is an inter-stage pipe and nobody holds its read half any more.
StdoutBroken(i) ==
    LET out == ios[i].stdout IN
    /\ out.kind = "PipeW"
    /\ Handle("PipeR", out.id) \notin engineHolds
    /\ \A j \in 1..Len(stageHolds) : Handle("PipeR", out.id) \notin stageHolds[j]

\* What makes a running stage terminate: it does not read its stdin, its
\* stdin has reached end-of-input (the input of the pipeline itself, a file
\* or the shell's input, is taken to end), or it writes to a broken pipe.
CanEnd(i) == ~Reads(i) \/ StdinAtEof(i) \/ StdoutBroken(i)

\* A running stage terminates for one of these reasons, and for no other.
StageEnds(i) ==
    /\ i \in 1..Len(children)
    /\ children[i].state = "running"
    /\ CanEnd(i)
    /\ StageExit(i)

\* The invocations of the pipelines whose termination is examined.
LiveInvocations ==
    { Invocation("cd", <<"sub">>), Invocation("to", <<"tty">>),
      Invocation("to", <<"cbor">>), Invocation("to", <<"text">>),
      Invocation("ls", <<>>), Invocation("cat", <<>>) }

\* The commands: every pipeline of up to MaxStages of them, not redirected.
LiveCommands ==
    { [pipeline |-> p, stdin_redirect |-> "None", stdout_redirect |-> "None"] :
        p \in UNION { [1..n -> LiveInvocations] : n \in 0..MaxStages } }

LiveInit ==
    /\ cwd = <<>>
    /\ cwd0 = cwd
    /\ EngineIdle
    /\ CodecIdle
    /\ PathIdle
    /\ ShellIdle

\* A step of the thread that runs eval_command, once it was called.
EngineStep ==
    /\ \/ PrepareStages
       \/ InsertFormatter
       \/ TypeCheck
       \/ PlumbStdin
       \/ PlumbStdout
       \/ PlumbStderr
       \/ MakeStreamChain
       \/ Launch
       \/ Wait
       \/ Aggregate
    /\ UNCHANGED ioVars

LiveNext ==
    \/ (pc = "idle" /\ \E c \in LiveCommands : StartEval(c)) /\ UNCHANGED ioVars
    \/ PrepareStages /\ UNCHANGED ioVars
    \/ InsertFormatter /\ UNCHANGED ioVars
    \/ TypeCheck /\ UNCHANGED ioVars
    \/ PlumbStdin /\ UNCHANGED ioVars
    \/ PlumbStdout /\ UNCHANGED ioVars
    \/ PlumbStderr /\ UNCHANGED ioVars
    \/ MakeStreamChain /\ UNCHANGED ioVars
    \/ Launch /\ UNCHANGED ioVars
    \/ \E i \in 1..(MaxStages + 2) : StageEnds(i) /\ UNCHANGED ioVars
    \/ Wait /\ UNCHANGED ioVars
    \/ Aggregate /\ UNCHANGED ioVars
    \/ Return /\ UNCHANGED ioVars

\* eval_command is straight-line code on one thread, which goes on whenever
\* its next step is not blocked; a launched child process or worker thread
\* is run by the operating system and terminates once it can.
LiveFairness ==
    /\ WF_vars(EngineStep)
    /\ \A i \in 1..(MaxStages + 2) : WF_vars(StageEnds(i) /\ UNCHANGED ioVars)

LiveSpec == LiveInit /\ [][LiveNext]_vars /\ LiveFairness

-----------------------------------------------------------------------------
(* Properties of the pipeline engine *)

\* The exits the launched stages terminated with, in pipeline order.
StageExits == [i \in 1..Len(children) |-> children[i].exit]

\* The first exit of es that is not Code(0), and Code(0) when there is none.
FirstNonSuccess(es) ==
    IF \A i \in 1..Len(es) : es[i] = Code(0) THEN Code(0)
    ELSE es[CHOOSE i \in 1..Len(es) :
                /\ es[i] # Code(0)
                /\ \A j \in 1..(i - 1) : es[j] = Code(0)]

\* This evaluation launched nothing and touched neither a file nor a pipe.
NothingDone ==
    /\ effects.executed = <<>>
    /\ effects.spawned = 0
    /\ effects.workers = 0
    /\ effects.files = {}
    /\ effects.pipes = 0
    /\ children = <<>>
    /\ engineHolds = {}

\* C1: when eval_command returns Ok for a non-empty pipeline (every stage was
\* launched and every wait succeeded), the exit it returns is the first
\* per-stage exit, in pipeline order, that is not Code(0), and Code(0) when all
\* are; for an empty pipeline it returns Code(0) and launches nothing.
C1_AggregateExit ==
    /\ (pc = "done" /\ result.tag = "Ok" /\ Len(cmd.pipeline) >= 1) =>
          /\ Len(children) = Len(stages)
          /\ \A i \in 1..Len(children) : children[i].state = "reaped"
          /\ result.exit = FirstNonSuccess(StageExits)
    /\ (pc = "done" /\ Len(cmd.pipeline) = 0) =>
          /\ result = Ok(Code(0))
          /\ NothingDone

\* A pipeline of three stages returned the exit of its second stage, the first
\* that failed, although the third was killed by a signal.
C1_Witness ==
    /\ pc = "done"
    /\ result.tag = "Ok"
    /\ Len(children) = 3
    /\ children[1].exit = Code(0)
    /\ children[2].exit = Code(2)
    /\ children[3].exit = Signal(9)
    /\ result.exit = Code(2)

\* Some adjacent pair of the realized pipeline does not connect.
SomePairMismatches ==
    \E i \in 1..(Len(stages) - 1) :
        ~can_connect(output_type(stages[i].exe, stages[i].args),
                     input_type(stages[i + 1].exe, stages[i + 1].args))

\* C2: once the pipeline is realized (the formatter stage included), if some
\* adjacent pair fails can_connect then the evaluation ends with a
\* TypeMismatch error and never spawns a child, starts a worker, opens a
\* redirection file or creates a pipe.
C2_NoEffectOnTypeError ==
    (effects.realized /\ SomePairMismatches) =>
        /\ NothingDone
        /\ pc \in {"typecheck", "done"}
        /\ pc = "done" => (result.tag = "Err" /\ result.err.kind = "TypeMismatch")

\* A mismatching pipeline with both redirections written has been rejected.
C2_Witness ==
    /\ pc = "done"
    /\ effects.realized
    /\ SomePairMismatches
    /\ Len(stages) = 3
    /\ cmd.stdin_redirect = "File"
    /\ cmd.stdout_redirect = "TruncateFile"
    /\ result.err.kind = "TypeMismatch"

\* The connection relation as the specification states it.
Connects(from, to) == to = "Any" \/ to = "Nothing" \/ from = to

\* C3: for all pipe types from and to, can_connect(from, to) holds exactly when
\* to = Any, to = Nothing or from = to; so it is false for Unknown to Cbor, Any
\* to Cbor, Nothing to Cbor and Cbor to Text; and every verdict of the engine's
\* type-check is the relation's.
C3_CanConnect ==
    /\ \A from \in Ty, to \in Ty : can_connect(from, to) <=> Connects(from, to)
    /\ ~can_connect("Unknown", "Cbor") /\ ~can_connect("Any", "Cbor")
    /\ ~can_connect("Nothing", "Cbor") /\ ~can_connect("Cbor", "Text")
    /\ \A k \in 1..Len(effects.checked) :
          effects.checked[k].ok <=>
              Connects(effects.checked[k].l_ty, effects.checked[k].r_ty)

\* The type-check accepted a Cbor to Any pair and then rejected Unknown to Cbor.
C3_Witness ==
    /\ Len(effects.checked) = 2
    /\ effects.checked[1].l_ty = "Cbor" /\ effects.checked[1].r_ty = "Any"
    /\ effects.checked[1].ok
    /\ effects.checked[2].l_ty = "Unknown" /\ effects.checked[2].r_ty = "Cbor"
    /\ ~effects.checked[2].ok

\* C4: the realized pipeline is the user-written stages followed by one stage
\* `to tty` exactly when the last user-written stage declares output Cbor and
\* the command has no stdout redirection; otherwise it is the user-written
\* stages alone.
C4_AutoFormat ==
    effects.realized =>
        LET n == Len(cmd.pipeline)
            last == stages[n]
        IN  /\ Len(stages) >= n
            /\ \A i \in 1..n :
                  /\ stages[i].command = cmd.pipeline[i].executable
                  /\ stages[i].args = cmd.pipeline[i].arguments
            /\ IF output_type(last.exe, last.args) = "Cbor"
                  /\ cmd.stdout_redirect = "None"
                  THEN /\ Len(stages) = n + 1
                       /\ stages[n + 1].command = "to"
                       /\ stages[n + 1].exe.kind = "To"
                       /\ stages[n + 1].args = <<"tty">>
                  ELSE Len(stages) = n

\* `ls | ls` without a redirection has been realized with a trailing `to tty`.
C4_Witness ==
    /\ effects.realized
    /\ Len(cmd.pipeline) = 2
    /\ cmd.pipeline[2].executable = "ls"
    /\ cmd.stdout_redirect = "None"
    /\ Len(stages) = 3
    /\ stages[3].command = "to"

\* Every stage of the realized pipeline has been launched.
AllLaunched == Len(stages) >= 1 /\ Len(children) = Len(stages)

PipeHalves == {"PipeR", "PipeW"}

\* C5: once every stage has been launched the engine holds no half of an
\* inter-stage pipe, the write half of pipe k is held by stage k at most and
\* its read half by stage k + 1 at most, and so once stage k has terminated a
\* read of stage k + 1 on that pipe reaches end-of-input.
C5_PipeOwnership ==
    AllLaunched =>
        /\ \A h \in engineHolds : h.kind \notin PipeHalves
        /\ \A k \in 1..(Len(stages) - 1), j \in 1..Len(stageHolds) :
              /\ Handle("PipeW", k) \in stageHolds[j] => j = k
              /\ Handle("PipeR", k) \in stageHolds[j] => j = k + 1
        /\ \A k \in 1..(Len(stages) - 1) :
              children[k].state # "running" => StdinAtEof(k + 1)

\* In a launched pipeline of three stages the first has terminated while the
\* worker after it still runs and holds the read half of their pipe.
C5_Witness ==
    /\ AllLaunched
    /\ Len(stages) = 3
    /\ children[1].kind = "Child" /\ children[1].state = "exited"
    /\ children[2].kind = "Thread" /\ children[2].state = "running"
    /\ Handle("PipeR", 1) \in stageHolds[2]

\* The name is no built-in and is on neither search path.
FoundNowhere(name) ==
    /\ name \notin BUILTINS
    /\ which_in(name, "MONCH_PATH").error = "CannotFindBinaryPath"
    /\ which_in(name, "PATH").error = "CannotFindBinaryPath"

\* C6: if the name of some stage, at any position, is found nowhere, the
\* evaluation ends with a ResolveBinary error that maps to exit 127, having
\* launched no stage, opened no redirection file and created no pipe.
C6_CommandNotFound ==
    (pc \notin {"idle", "prepare"}
       /\ \E i \in 1..Len(cmd.pipeline) : FoundNowhere(cmd.pipeline[i].executable)) =>
        /\ pc = "done"
        /\ result.tag = "Err"
        /\ result.err.kind = "ResolveBinary"
        /\ as_exit(result.err) = Code(127)
        /\ NothingDone

\* `ls | cat | nope` with both redirections written has been refused.
C6_Witness ==
    /\ pc = "done"
    /\ Len(cmd.pipeline) = 3
    /\ cmd.pipeline[1].executable = "ls"
    /\ cmd.pipeline[3].executable = "nope"
    /\ cmd.stdin_redirect = "File"
    /\ cmd.stdout_redirect = "AppendFile"
    /\ result.err.kind = "ResolveBinary"
    /\ result.err.cmd = "nope"

\* The steps of eval_command that come before the launch phase.
PreLaunchSteps == {"prepare", "typecheck", "stdin", "stdout", "stderr", "chain"}

\* C7: if a step before the launch phase fails, eval_command returns an error
\* and execute has been called on no stage: there is no child process and no
\* worker thread, and the working directory is what it was.
C7_NoLaunchAfterFailure ==
    effects.failed \in PreLaunchSteps =>
        /\ pc = "done"
        /\ result.tag = "Err"
        /\ effects.executed = <<>>
        /\ children = <<>>
        /\ effects.spawned = 0
        /\ effects.workers = 0
        /\ cwd = cwd0

\* Creating the second pipe of `cd sub | cat | cat` failed.
C7_Witness ==
    /\ effects.failed = "chain"
    /\ effects.pipes = 1
    /\ Len(stages) = 3
    /\ stages[1].command = "cd"
    /\ result.err.kind = "Io"

\* C8: a stage named after a built-in runs the built-in even when a program of
\* that name is on a search path, and a stage whose name is on both the shell
\* path and the system path runs the shell-path executable.
C8_ResolutionOrder ==
    \A i \in 1..Len(stages) :
        LET name == stages[i].command
            exe == stages[i].exe
        IN  /\ name = "cd" => (exe.kind = "Cd" /\ exe.binary = "builtin")
            /\ name = "to" => (exe.kind = "To" /\ exe.binary = "builtin")
            /\ (name \notin BUILTINS /\ which_in(name, "MONCH_PATH").found) =>
                  (exe.kind = "External" /\ exe.binary = "MONCH_PATH")
            /\ (name \notin BUILTINS /\ exe.binary = "PATH") =>
                  (exe.kind = "External" /\ ~which_in(name, "MONCH_PATH").found)

\* `cd`, on both paths, and `ls`, on both paths, have been resolved.
C8_Witness ==
    /\ pc = "format"
    /\ Len(stages) = 3
    /\ stages[1].command = "cd" /\ which_in("cd", "PATH").found
    /\ stages[2].command = "ls" /\ which_in("ls", "PATH").found
    /\ stages[2].exe.binary = "MONCH_PATH"
    /\ stages[3].command = "cat" /\ stages[3].exe.binary = "PATH"

\* Argument lists on which the declared types are asked for.
SomeArgs == {<<>>, <<"tty">>, <<"cbor">>, <<"text", "any">>}

\* C9: an executable resolved from the shell path declares input Cbor and
\* output Cbor, and one resolved from the system path declares input Any and
\* output Unknown, whatever the argument list.
C9_DeclaredTypes ==
    \A i \in 1..Len(stages) :
        LET exe == stages[i].exe IN
        \A args \in SomeArgs \cup {stages[i].args} :
            /\ exe.binary = "MONCH_PATH" =>
                  (input_type(exe, args) = "Cbor" /\ output_type(exe, args) = "Cbor")
            /\ exe.binary = "PATH" =>
                  (input_type(exe, args) = "Any" /\ output_type(exe, args) = "Unknown")

\* A shell-path and a system-path executable have been resolved.
C9_Witness ==
    /\ Len(stages) = 2
    /\ stages[1].exe.binary = "MONCH_PATH"
    /\ stages[2].exe.binary = "PATH"
    /\ stages[2].exe.kind = "External"

\* C10: when spawning the child of an external stage fails, the error
\* eval_command returns maps to the could-not-execute exit, code 126.
C10_SpawnFailureIs126 ==
    (pc = "done" /\ effects.spawn_failed) =>
        /\ result.tag = "Err"
        /\ as_exit(result.err) = Code(126)

\* The variants of Error.
ErrorKinds == {"Io", "ExecutionFailed", "ResolveBinary", "BadWorkingDirectory",
               "TypeMismatch"}

\* The exit of every variant of Error, whatever its fields.
ExitTable ==
    /\ as_exit(Error_Io) = Code(1)
    /\ as_exit(Error_BadWorkingDirectory) = Code(1)
    /\ \A lt, rt \in Ty : as_exit(Error_TypeMismatch("ls", lt, "cat", rt)) = Code(2)
    /\ \A n \in Names : as_exit(Error_ResolveBinary(n)) = Code(127)
    /\ \A k \in ErrorKinds : as_exit(Err(k)) # Code(0)

\* C11: every engine error maps to its canonical exit: an I/O error (a
\* redirection file that cannot be opened among them) and a bad working
\* directory map to code 1, a type mismatch to code 2, a command that cannot be
\* found to code 127; no engine error maps to success, and the error
\* eval_command returns follows the same table.
C11_CanonicalExits ==
    /\ ExitTable
    /\ (pc = "done" /\ result.tag = "Err") =>
          /\ result.err.kind \in ErrorKinds
          /\ effects.failed \in {"stdin", "stdout"} => as_exit(result.err) = Code(1)
          /\ effects.failed = "typecheck" => as_exit(result.err) = Code(2)
          /\ effects.failed = "prepare" => as_exit(result.err) = Code(127)
          /\ as_exit(result.err) # Code(0)

\* The file of a stdout redirection could not be opened: eval_command
\* returned an error whose exit is code 1.
C11_Witness ==
    /\ pc = "done"
    /\ cmd.stdout_redirect = "TruncateFile"
    /\ effects.failed = "stdout"
    /\ result.tag = "Err"
    /\ as_exit(result.err) = Code(1)

\* The stage the next step of the launch loop executes is a cd with exactly
\* one argument whose target, joined onto the current directory, is a directory.
CdTargetIsDir ==
    /\ pc = "launch" /\ idx < Len(stages)
    /\ stages[idx + 1].exe.kind = "Cd"
    /\ Len(stages[idx + 1].args) = 1
    /\ is_dir(join(cwd, stages[idx + 1].args[1]))

\* C12: when cd is executed with exactly one argument d and the join of d
\* onto the current directory denotes an existing directory (and still does
\* when the directory is committed), the current directory becomes the
\* canonical form of the joined path and the stage's exit is success.
C12_CdStep ==
    (CdTargetIsDir /\ idx' = idx + 1 /\ (idx + 1) \notin effects'.raced) =>
        /\ cwd' = canonicalize(join(cwd, stages[idx + 1].args[1])).path
        /\ Len(children') = idx + 1
        /\ children'[idx + 1] = ImmediateProc(SUCCESS)
        /\ result' = NoResult

C12_CdSuccess == [][C12_CdStep]_vars

\* `cd link` was run in the root: the current directory is /sub, the target
\* of the symbolic link, and the stage succeeded.
C12_Witness ==
    /\ cmd.pipeline = <<Invocation("cd", <<"link">>)>>
    /\ cwd0 = <<>>
    /\ cwd = <<"sub">>
    /\ Len(children) = 1
    /\ children[1].exit = SUCCESS
    /\ effects.raced = {}

\* The next step of the launch loop executes a cd.
CdIsNext ==
    /\ pc = "launch" /\ idx < Len(stages)
    /\ stages[idx + 1].exe.kind = "Cd"

\* C13: when cd fails (no argument, two or more arguments, a target that
\* does not exist or is not a directory, or a target that cannot be
\* canonicalized), the stage's exit is non-zero, a diagnostic is written to
\* the stage's stderr, and the current directory is left as it was.  The
\* steps looked at are those on which execute returns the stage's handle.
C13_CdFailureStep ==
    (/\ CdIsNext
     /\ idx' = idx + 1
     /\ Len(children') = idx + 1
     /\ \/ ~CdTargetIsDir
        \/ (idx + 1) \in effects'.raced) =>
        /\ children'[idx + 1].exit # SUCCESS
        /\ (idx + 1) \in effects'.diagnosed
        /\ cwd' = cwd

C13_CdFailure == [][C13_CdFailureStep]_vars

SomeOk(i) == Item("Ok", records[i], "")

\* C15: decoding an empty input yields no item and no error; decoding the
\* encodings of r1..rk followed by a non-empty proper prefix of one more
\* record's encoding yields Ok(r1)..Ok(rk), then exactly one error item, and
\* then None on every later call of next.
C15_TruncatedInput ==
    (fed.open /\ fed.junk = <<>> /\ ~ReadFailed) =>
        /\ wire = <<>> => \A i \in 1..Len(yielded) : yielded[i] = None_
        /\ util.partial # <<>> =>
              \A i \in 1..Len(yielded) :
                  yielded[i] = IF i <= util.written THEN SomeOk(i)
                               ELSE IF i = util.written + 1
                                   THEN Item("Err", Value_Null, "Deserialize")
                               ELSE None_

\* A record was written whole and the write of the map after it stopped
\* inside the map's key; next was called four times: Ok, an error, None, None.
C15_Witness ==
    /\ fed.open /\ fed.junk = <<>> /\ ~ReadFailed
    /\ util.written = 1
    /\ util.partial = <<161, 97>>
    /\ yielded = <<SomeOk(1), Item("Err", Value_Null, "Deserialize"), None_, None_>>

\* C16: when the input that remains is not empty but does not begin with a
\* valid record (malformed bytes, possibly followed by further bytes), the
\* parser yields one error item and then ends: after the first error no
\* further Ok or Err item is produced.
C16_OneErrorThenEnd ==
    (fed.open /\ fed.junk # <<>> /\ ~ReadFailed) =>
        \A i, j \in 1..Len(yielded) :
            (i < j /\ yielded[i].tag = "Err") => yielded[j] = None_

\* C17: for every sequence of records, writing each in order, with nothing
\* between them, and decoding the bytes yields exactly these records in
\* order with no error item, and then None.
C17_RoundTrip ==
    (fed.open /\ fed.junk = <<>> /\ util.partial = <<>> /\ ~ReadFailed) =>
        /\ wire = concat([i \in 1..util.written |-> encode(records[i])])
        /\ \A i \in 1..Len(yielded) :
              yielded[i] = IF i <= util.written THEN SomeOk(i) ELSE None_

\* A map and an array of one integer were written and decoded, and the
\* third call of next returned None.
C17_Witness ==
    /\ fed.open /\ fed.junk = <<>> /\ ~ReadFailed
    /\ util.state = "exited" /\ util.outcome = "Ok"
    /\ records = <<Map(<< <<Text(<<97>>), Integer(0)>> >>), Array(<<Integer(1)>>)>>
    /\ util.written = 2
    /\ yielded = <<SomeOk(1), SomeOk(2), None_>>

OnlyDots == \A i \in 1..Len(data_path) : data_path[i] = 46

\* A record without the tags around it.
RECURSIVE untag(_)
untag(v) == IF v.t = "Tag" THEN untag(v.v[2]) ELSE v

\* C19 as stated: for every record v, tagged values included, evaluating the
\* empty path, or a path string made only of `.` characters, against v
\* returns v itself.
C19_EmptyPathIsIdentity ==
    (selected.done /\ OnlyDots) => selected.val = value

\* C19 amended: evaluating the empty path, or a path string made only of `.`
\* characters, against v returns v without the tags around it, which is v
\* itself when v is not a tagged value.
C19_EmptyPathUntags ==
    (selected.done /\ OnlyDots) =>
        /\ selected.val = untag(value)
        /\ value.t # "Tag" => selected.val = value

\* The path ".." was evaluated against a map and returned the map.
C19_Witness ==
    /\ selected.done
    /\ data_path = <<46, 46>>
    /\ value.t = "Map"
    /\ selected.val = value

\* The tags a record is wrapped in.
Tags == {1, 2}

\* A record without any of its tags, those inside arrays and map values too.
RECURSIVE strip(_)
strip(v) ==
    IF v.t = "Tag" THEN strip(v.v[2])
    ELSE IF v.t = "Array" THEN Array([i \in 1..Len(v.v) |-> strip(v.v[i])])
    ELSE IF v.t = "Map" THEN Map([i \in 1..Len(v.v) |-> <<v.v[i][1], strip(v.v[i][2])>>])
    ELSE v

\* C20: for every tag t, record x and path p, get_from(p, Tag(t, x)) equals
\* get_from(p, x); this holds for tags at any depth along the path, and
\* unwrapping a tag uses up no key of the path: what is selected is, tags
\* aside, what the same path selects in the record without its tags.
C20_TagTransparent ==
    LET p == parse(data_path) IN
    /\ \A t \in Tags : get_from(p, Tag(t, value)) = get_from(p, value)
    /\ \A t, u \in Tags : get_from(p, Tag(t, Tag(u, value))) = get_from(p, value)
    /\ selected.done =>
          /\ selected.val = get_from(p, untag(value))
          /\ strip(selected.val) = get_from(p, strip(value))

\* The path ".a.0" was evaluated against a tagged map whose entry a is a
\* tagged array of a tagged text: the text was selected.
C20_Witness ==
    /\ selected.done
    /\ data_path = <<46, 97, 46, 48>>
    /\ value = Tag(1, Map(<< <<Text(<<97>>), Tag(2, Array(<<Tag(3, Text(<<98>>))>>))>> >>))
    /\ selected.val = Text(<<98>>)

\* The records that hold nothing to select from: null and the scalars.
Scalars == {"Null", "Integer", "Text"}

\* C21: for every path p, get_from(p, null) is null; and once the evaluation
\* of a path has reached null (a missing map key, an array index out of
\* range) or a scalar with keys of the path remaining, the result is null
\* whatever the remaining keys are.
C21_NullAbsorbs ==
    LET p == parse(data_path) IN
    /\ get_from(p, Value_Null) = Value_Null
    /\ \A t \in Tags : get_from(p, Tag(t, Value_Null)) = Value_Null
    /\ selected.done =>
          \A k \in 0..Len(p) :
              LET there == get_from(SubSeq(p, 1, k), value) IN
              /\ selected.val = get_from(SubSeq(p, k + 1, Len(p)), there)
              /\ there = Value_Null => selected.val = Value_Null
              /\ (k < Len(p) /\ there.t \in Scalars) => selected.val = Value_Null

\* The path ".b.a" was evaluated against a map without the key b, and the
\* path ".0.b" against an array whose element 0 is an integer: null both times.
C21_Witness ==
    /\ selected.done
    /\ selected.val = Value_Null
    /\ \/ /\ data_path = <<46, 98, 46, 97>>
          /\ value.t = "Map"
          /\ get_from(parse(<<98>>), value) = Value_Null
       \/ /\ data_path = <<46, 48, 46, 98>>
          /\ value.t = "Array"
          /\ get_from(parse(<<48>>), value) = Integer(0)

\* The segments of a path string: its longest runs of characters other than
\* `.`, each as the pair of its first and last position.
Runs(s) ==
    {r \in (1..Len(s)) \X (1..Len(s)) :
        /\ r[1] <= r[2]
        /\ \A i \in r[1]..r[2] : s[i] # 46
        /\ (r[1] = 1 \/ s[r[1] - 1] = 46)
        /\ (r[2] = Len(s) \/ s[r[2] + 1] = 46)}

\* The value of a run of decimal digits, read from the left.
RECURSIVE Decimal(_, _)
Decimal(ds, acc) ==
    IF ds = <<>> THEN acc ELSE Decimal(Tail(ds), 10 * acc + (Head(ds) - 48))

\* The key a segment stands for: an integer index when the segment reads as a
\* non-negative integer (digits, which a `+` may precede), a text key otherwise.
KeyOf(seg) ==
    LET ds == IF Head(seg) = 43 THEN Tail(seg) ELSE seg IN
    IF ds # <<>> /\ \A i \in 1..Len(ds) : ds[i] \in 48..57
       THEN Integer(Decimal(ds, 0))
       ELSE Text(seg)

\* C22: DataPath::parse of a string yields the keys of its non-empty
\* `.`-separated segments, in order: an integer index for a segment that
\* parses as a non-negative integer, a text key for every other; the empty
\* string and a string of `.` characters only yield the empty path.
C22_ParseSegments ==
    LET p == parse(data_path)
        runs == Runs(data_path)
    IN  /\ Len(p) = Cardinality(runs)
        /\ \A r \in runs :
              LET k == Cardinality({q \in runs : q[1] <= r[1]}) IN
              p[k] = KeyOf(SubSeq(data_path, r[1], r[2]))
        /\ OnlyDots => p = <<>>
        /\ selected.done => selected.val = get_from(p, value)

\* The path ".a..0." was parsed to the text key a and the index 0, and
\* selected the element 0 of the entry a of a map.
C22_Witness ==
    /\ selected.done
    /\ data_path = <<46, 97, 46, 46, 48, 46>>
    /\ parse(data_path) = <<Text(<<97>>), Integer(0)>>
    /\ selected.val = Text(<<98>>)

\* C23 as stated: a pipeline in which a system-path program feeds `to cbor`,
\* with the output redirected to a file, is accepted by the engine: the
\* evaluation does not end in a type mismatch, and the stages are launched
\* with the file as the stdout of `to cbor`.
C23_RetypeAccepted ==
    (/\ pc = "done"
     /\ Len(stages) = 2
     /\ stages[1].exe.binary = "PATH"
     /\ stages[2].command = "to" /\ stages[2].args = <<"cbor">>
     /\ cmd.stdout_redirect # "None") =>
        /\ ~(result.tag = "Err" /\ result.err.kind = "TypeMismatch")
        /\ effects.failed # "typecheck"

\* What `to` declares: input Cbor for every argument list, and as output the
\* type its single argument names.
ToDeclares ==
    /\ \A args \in ToArgs \cup SomeArgs : input_type(Builtin("to"), args) = "Cbor"
    /\ output_type(Builtin("to"), <<"cbor">>) = "Cbor"
    /\ output_type(Builtin("to"), <<"text">>) = "Text"
    /\ output_type(Builtin("to"), <<"tty">>) = "Tty"
    /\ output_type(Builtin("to"), <<" Tty">>) = "Tty"

\* The target the arguments of the `to` stage name, Nothing when they name none.
ToTarget == To_parse_args(to_run.args).ty

\* C24: `to` declares input Cbor for every argument list and as output the
\* type named by its single argument.  Run with the target cbor, it copies
\* its stdin to its stdout byte for byte and exits with success at the end
\* of the input (when reading and writing succeed; it exits with failure
\* otherwise); run with a target other than cbor and tty, it exits with
\* failure and writes nothing to its stdout.
C24_To ==
    /\ ToDeclares
    /\ to_run.state = "exited" =>
          /\ ToTarget = "Cbor" =>
                /\ to_run.exit \in {SUCCESS, FAILURE}
                /\ to_run.exit = SUCCESS =>
                      /\ to_ios.stdin.data = <<>>
                      /\ to_ios.stdout.kind # "Null" => to_ios.stdout.data = to_run.input
                /\ (~to_ios.stdin.broken /\ ~to_ios.stdout.broken
                    /\ to_ios.stdout.kind # "Null") => to_run.exit = SUCCESS
                /\ to_ios.stderr.data = <<>>
          /\ ToTarget \notin {"Cbor", "Tty"} =>
                /\ to_run.exit = FAILURE
                /\ to_ios.stdout.data = <<>>
                /\ to_ios.stdin.data = to_run.input

\* `to cbor` has copied the three bytes 1, 2, 3 from a pipe to a file and
\* exited with success.
C24_Witness ==
    /\ to_run.state = "exited"
    /\ to_run.args = <<"cbor">>
    /\ to_run.input = <<1, 2, 3>>
    /\ to_ios.stdin = ReadStream("Pipe", <<>>, FALSE)
    /\ to_ios.stdout = WriteStream("File", <<1, 2, 3>>, FALSE)
    /\ to_run.exit = SUCCESS

\* C26 as stated: a read from the null readable stream returns end of input
\* at once; a write of any buffer to the null writable stream succeeds and
\* reports the whole buffer as taken, so that a writer that writes all its
\* output to a null sink (here `to cbor`, reading a working stdin) finishes
\* normally; and a clone of a null stream is a null stream.
C26_NullStreams ==
    (/\ to_run.state = "exited"
     /\ ToTarget = "Cbor"
     /\ to_ios.stdout.kind = "Null"
     /\ ~to_ios.stdin.broken) =>
        /\ ReadStream_read(ReadStream_Null, MaxChunk) =
              [ok |-> TRUE, bytes |-> <<>>, stream |-> ReadStream_Null]
        /\ try_clone(ReadStream_Null) = [ok |-> TRUE, stream |-> ReadStream_Null]
        /\ try_clone(WriteStream_Null) = [ok |-> TRUE, stream |-> WriteStream_Null]
        /\ LET w == WriteStream_write(to_ios.stdout, to_run.input) IN
              w.ok /\ w.n = Len(to_run.input) /\ w.stream = WriteStream_Null
        /\ write_all(to_ios.stdout, to_run.input).ok
        /\ to_run.exit = SUCCESS

\* The step is one in which readline returned a line.
LineProcessed == repl'.lines = repl.lines + 1 /\ repl'.line.kind = "Ok"

\* C25: after a line is processed, last_exit is success for a line that is
\* blank (empty or white space only); bad-syntax, code 2, for a line that
\* fails to parse, and the engine is not called for it; the exit the engine
\* returned when the evaluation succeeded; and the mapped exit of the
\* engine's error when the evaluation failed.
C25_LineStep ==
    LineProcessed =>
        LET l == repl'.line
            blank == \A i \in 1..Len(l.text) : l.text[i] \in {32, 9}
        IN  /\ blank => (last_exit' = Code(0) /\ repl'.evals = repl.evals)
            /\ (~blank /\ ~l.parse) =>
                  (last_exit' = Code(2) /\ repl'.evals = repl.evals)
            /\ (~blank /\ l.parse) =>
                  /\ repl'.evals = repl.evals + 1
                  /\ l.eval.tag = "Ok" => last_exit' = l.eval.exit
                  /\ l.eval.tag = "Err" => last_exit' = as_exit(l.eval.err)
                  /\ l.eval = Failed(Error_ResolveBinary("nope")) => last_exit' = Code(127)

C25_LastExit == [][C25_LineStep]_vars

\* After a command that was evaluated, a line that does not parse was read:
\* last_exit is bad-syntax and the engine has been called once.
C25_Witness ==
    /\ repl.lines = 2
    /\ repl.evals = 1
    /\ repl.line = Line("Ok", <<124>>, FALSE, NoResult)
    /\ last_exit = BAD_SYNTAX

\* The places among the inner pairs of the i-th invocation where a
\* redirection of the given rule is written.
RedirectsAt(i, rule) == {k \in 2..Len(pairs[i]) : pairs[i][k].rule = rule}

\* Some invocation but the first carries an input redirection, some
\* invocation but the last an output redirection, or one invocation carries
\* two redirections of the same direction.
Misplaced ==
    \E i \in 1..Len(pairs) :
        \/ i > 1 /\ RedirectsAt(i, "ReadRedirect") # {}
        \/ i < Len(pairs) /\ RedirectsAt(i, "WriteRedirect") # {}
        \/ Cardinality(RedirectsAt(i, "ReadRedirect")) > 1
        \/ Cardinality(RedirectsAt(i, "WriteRedirect")) > 1

\* C27: the Command of an accepted command line carries at most one stdin
\* redirection, the one written on the leftmost invocation, and at most one
\* stdout redirection, the one written on the rightmost invocation; a command
\* line with an input redirection on an invocation that is not the first, an
\* output redirection on one that is not the last, or two redirections of the
\* same direction on one invocation is rejected with a parse error.
C27_Redirections ==
    parse_result.done =>
        LET n == Len(pairs)
            c == parse_result.command
            ins == RedirectsAt(1, "ReadRedirect")
            outs == RedirectsAt(n, "WriteRedirect")
        IN  /\ Misplaced => (~parse_result.ok /\ parse_result.error # "")
            /\ parse_result.ok =>
                  /\ Len(c.pipeline) = n
                  /\ \A i \in 2..n : RedirectsAt(i, "ReadRedirect") = {}
                  /\ \A i \in 1..(n - 1) : RedirectsAt(i, "WriteRedirect") = {}
                  /\ Cardinality(ins) <= 1 /\ Cardinality(outs) <= 1
                  /\ ins = {} => c.stdin_redirect.kind = "None"
                  /\ \A k \in ins :
                        c.stdin_redirect = [kind |-> "File", file |-> pairs[1][k].text]
                  /\ outs = {} => c.stdout_redirect.kind = "None"
                  /\ \A k \in outs :
                        /\ c.stdout_redirect.file = pairs[n][k].text
                        /\ c.stdout_redirect.kind =
                              IF pairs[n][k].inner = "WRedirAppendFile"
                                 THEN "AppendFile" ELSE "TruncateFile"

\* `ls <in | ls a | ls >>log` was accepted, with the stdin redirection from
\* in and the appending stdout redirection to log.
C27_Witness ==
    /\ parse_result.done /\ parse_result.ok
    /\ Len(pairs) = 3
    /\ Len(pairs[2]) = 2 /\ pairs[2][2].rule = "Term"
    /\ parse_result.command.stdin_redirect = [kind |-> "File", file |-> "in"]
    /\ parse_result.command.stdout_redirect = [kind |-> "AppendFile", file |-> "log"]
    /\ Len(parse_result.command.pipeline) = 3

\* The first n positive numbers in order.
Upto(n) == [i \in 1..n |-> i]

\* C28: within one eval_command the stages are launched strictly from left
\* to right, every stage is launched before the first wait begins, and the
\* handles are waited on in the same order, from left to right.
C28_Step ==
    /\ (effects'.executed # effects.executed /\ pc' # "idle") =>
          /\ effects'.executed = Append(effects.executed, Len(effects.executed) + 1)
          /\ effects.waited = <<>> /\ effects'.waited = <<>>
          /\ Len(effects.executed) = Len(children)
    /\ pc = "wait" =>
          /\ Len(stages) >= 1
          /\ effects.executed = Upto(Len(stages))
          /\ Len(children) = Len(stages)
          /\ effects'.executed = effects.executed
    /\ (effects'.waited # effects.waited /\ pc' # "idle") =>
          /\ pc = "wait"
          /\ effects'.waited = Append(effects.waited, Len(effects.waited) + 1)
          /\ children[Len(effects.waited) + 1].state # "reaped"
          /\ children'[Len(effects.waited) + 1].state = "reaped"
          /\ \A w \in 1..Len(effects.waited) : children[w].state = "reaped"

C28_LaunchThenWait == [][C28_Step]_vars

\* The three stages of a pipeline were launched 1, 2, 3 and then waited on
\* 1, 2, 3.
C28_Witness ==
    /\ pc = "aggregate"
    /\ effects.executed = <<1, 2, 3>>
    /\ effects.waited = <<1, 2, 3>>

\* C29: for a realized pipeline of n >= 1 stages make_stream_chain creates
\* n - 1 pipes and returns n Streams: the stdin of the first stage is the
\* stdin of the pipeline ends and the stdout of the last stage their stdout;
\* the stdout of stage i - 1 and the stdin of stage i are the two halves of
\* one pipe, a different pipe for every i; every stderr is the interpreter's
\* stderr, duplicated; and no slot is the null stream.
C29_Step ==
    (pc = "chain" /\ pc' = "launch") =>
        LET n == Len(stages)
            chain == ios'
        IN
        /\ n >= 1
        /\ Len(chain) = n
        /\ effects'.pipes = n - 1
        /\ chain[1].stdin = ends.stdin
        /\ chain[n].stdout = ends.stdout
        /\ chain[1].stdin.kind \in {"InFile", "StdinDup"}
        /\ chain[n].stdout.kind \in {"OutFile", "StdoutDup"}
        /\ \A i \in 2..n :
              /\ chain[i].stdin.kind = "PipeR"
              /\ chain[i - 1].stdout.kind = "PipeW"
              /\ chain[i].stdin.id = chain[i - 1].stdout.id
              /\ \A j \in 2..n : chain[j].stdin.id = chain[i].stdin.id => j = i
        /\ chain[1].stderr = ends.stderr
        /\ \A i \in 1..n :
              /\ chain[i].stderr.kind = "StderrDup"
              /\ \A j \in 1..n : chain[j].stderr = chain[i].stderr => j = i
              /\ Null \notin {chain[i].stdin, chain[i].stdout, chain[i].stderr}

C29_StreamChain == [][C29_Step]_vars

\* A pipeline of three stages has been plumbed with two pipes.
C29_Witness ==
    /\ pc = "launch"
    /\ Len(ios) = 3
    /\ effects.pipes = 2
    /\ ios[2].stdin = Handle("PipeR", 1) /\ ios[1].stdout = Handle("PipeW", 1)
    /\ ios[3].stdin = Handle("PipeR", 2) /\ ios[2].stdout = Handle("PipeW", 2)

\* C30 as stated: when eval_command returns, with an exit or with an error,
\* every stage launched during the evaluation has been waited on.
\* (A stage counts as waited on when wait was called on its handle, even if
\* that call returned an error.)
C30_AllWaited ==
    pc = "done" =>
        LET called == Len(exit_codes) + (IF effects.failed = "wait" THEN 1 ELSE 0)
        IN  \A i \in 1..Len(children) : i <= called

-----------------------------------------------------------------------------
(* The working directory of children and of the interpreter *)

\* The step launches a stage as a child process.
SpawnsChild ==
    /\ pc = "launch"
    /\ Len(children') = Len(children) + 1
    /\ children'[Len(children')].kind = "Child"

\* C31: a step that spawns an external child gives it the interpreter's
\* current directory as it is at that step, so a child launched after a
\* successful cd (of an earlier command or of an earlier stage of the same
\* pipeline) runs in the new directory; the children launched before keep the
\* directory they were given.
C31_Step ==
    SpawnsChild =>
        /\ children'[Len(children')].dir = cwd
        /\ cwd' = cwd
        /\ \A j \in 1..Len(children) : children'[j].dir = children[j].dir

C31_ChildDirectory == [][C31_Step]_vars

\* Reached: a child was spawned after a cd of the same pipeline had moved the
\* interpreter away from the directory the command began in.
C31_Witness ==
    /\ cwd # cwd0
    /\ \E i \in 1..Len(children) :
         /\ children[i].kind = "Child"
         /\ children[i].dir = cwd
         /\ \E j \in 1..(i - 1) : stages[j].exe.kind = "Cd"

\* The step is the execute call of a cd stage: the launch loop calls it on the
\* next stage and gets an ImmediateProc back.
CdExecutes ==
    /\ pc = "launch"
    /\ idx < Len(stages)
    /\ stages[idx + 1].exe.kind = "Cd"
    /\ idx' = idx + 1
    /\ children' = Append(children, ImmediateProc(SUCCESS))

\* The command under evaluation names cd in no stage.
NoCdStage == \A k \in 1..Len(cmd.pipeline) : cmd.pipeline[k].executable # "cd"

\* C32: the interpreter's working directory changes only in the execute call
\* of a cd stage during the launch phase; no step of a worker or child (its
\* termination) and no step of the collect phase changes it, and a command
\* with no cd stage returns with the directory it began with.
C32_Step ==
    /\ cwd' # cwd => CdExecutes
    /\ (pc \in {"wait", "aggregate"} \/ pc' \in {"aggregate"}) => cwd' = cwd
    /\ (/\ Len(children') = Len(children)
        /\ \E i \in 1..Len(children) : children[i].state # children'[i].state)
           => cwd' = cwd
    /\ (pc = "done" /\ pc' = "idle" /\ NoCdStage) => cwd' = cwd0 /\ cwd = cwd0

C32_OnlyCdWrites == [][C32_Step]_vars

\* Reached: a cd stage has moved the interpreter while a worker and a child of
\* the same pipeline are still running, and the collect phase has begun.
C32_Witness ==
    /\ pc = "wait"
    /\ cwd # cwd0
    /\ \E i \in 1..Len(children) : children[i].kind = "Thread" /\ children[i].state = "running"
    /\ \E i \in 1..Len(children) : children[i].kind = "Child" /\ children[i].state = "running"

-----------------------------------------------------------------------------
(* The type-check, pair by pair *)

\* The declared output type of stage k and the declared input type of the
\* stage after it, for their evaluated arguments.
OutOf(k) == output_type(stages[k].exe, stages[k].args)
InOf(k) == input_type(stages[k].exe, stages[k].args)

\* The adjacent pairs (k, k + 1) of the realized pipeline that do not connect.
FailingPairs == { k \in 1..(Len(stages) - 1) : ~can_connect(OutOf(k), InOf(k + 1)) }

\* C33: the type-check step examines the adjacent pairs of the realized
\* pipeline from the left, each with the left stage's declared output type and
\* the right stage's declared input type; when every pair connects all pairs
\* are examined and evaluation goes on to the plumbing, and otherwise it ends
\* at the leftmost failing pair with a type-mismatch error that names that
\* pair's two commands and two types and maps to exit 2.
C33_Step ==
    pc = "typecheck" =>
        /\ \A k \in 1..Len(effects'.checked) :
              /\ effects'.checked[k].l = k
              /\ effects'.checked[k].l_ty = OutOf(k)
              /\ effects'.checked[k].r_ty = InOf(k + 1)
        /\ IF FailingPairs = {}
              THEN /\ pc' = "stdin"
                   /\ result' = NoResult
                   /\ Len(effects'.checked) = Len(stages) - 1
              ELSE LET m == CHOOSE k \in FailingPairs : \A j \in FailingPairs : k <= j IN
                   /\ pc' = "done"
                   /\ Len(effects'.checked) = m
                   /\ result' = Failed(Error_TypeMismatch(stages[m].command, OutOf(m),
                                                          stages[m + 1].command, InOf(m + 1)))
                   /\ as_exit(result'.err) = Code(2)

C33_TypeCheck == [][C33_Step]_vars

\* Reached: a pipeline of three stages in which neither pair connects was
\* rejected with the error of its first pair.
C33_Witness ==
    /\ pc = "done"
    /\ effects.failed = "typecheck"
    /\ Len(stages) = 3
    /\ FailingPairs = {1, 2}
    /\ result.err.l_cmd = stages[1].command
    /\ stages[1].command # stages[2].command
    /\ stages[2].command # stages[3].command

-----------------------------------------------------------------------------
(* Selecting from arrays and maps *)

\* The arrays among the records, with the tags around them taken off.
PathArrays == { untag(v) : v \in { w \in PathValues : untag(w).t = "Array" } }

\* C34: for an integer selector k applied to an array of length n, the result
\* is the remaining path evaluated against the element originally at position
\* k when k < n, and null when k >= n; a text-key selector applied to an array
\* yields null.
C34_ArrayIndex ==
    /\ \A a \in PathArrays, k \in 0..(MaxRecords + 2), rest \in {<<>>, <<Text(<<98>>)>>} :
          get_from(<<Integer(k)>> \o rest, a) =
              IF k < Len(a.v) THEN get_from(rest, a.v[k + 1]) ELSE Value_Null
    /\ \A a \in PathArrays, rest \in {<<>>, <<Integer(0)>>} :
          get_from(<<Text(<<97>>)>> \o rest, a) = Value_Null
    /\ LET p == parse(data_path) IN
       (selected.done /\ p # <<>> /\ untag(value).t = "Array") =>
          LET a == untag(value).v
              k == Head(p)
          IN  /\ (k.t = "Integer" /\ k.v < Len(a))
                     => selected.val = get_from(Tail(p), a[k.v + 1])
              /\ (k.t = "Integer" /\ k.v >= Len(a)) => selected.val = Value_Null
              /\ k.t = "Text" => selected.val = Value_Null

\* Reached: index 0 selected the first element of an array of two different
\* elements, index 2 selected null from it, and so did the key a.
C34_Witness ==
    /\ selected.done
    /\ value = Array(<<Integer(0), Text(<<98>>)>>)
    /\ \/ data_path = <<46, 48>> /\ selected.val = Integer(0)
       \/ data_path = <<46, 50>> /\ selected.val = Value_Null
       \/ data_path = <<46, 97>> /\ selected.val = Value_Null

\* The maps among the records, with the tags around them taken off.
PathMaps == { untag(v) : v \in { w \in PathValues : untag(w).t = "Map" } }

\* The selectors tried on the maps: the keys a and b, the indices 0 and 1.
PathKeys == {Text(<<97>>), Text(<<98>>), Integer(0), Integer(1)}

\* The value of the first entry of a list of entries whose key is `key`, going
\* through the entries in insertion order; null when there is none.
RECURSIVE FirstEntry(_, _)
FirstEntry(entries, key) ==
    IF entries = <<>> THEN Value_Null
    ELSE IF Head(entries)[1] = key THEN Head(entries)[2]
    ELSE FirstEntry(Tail(entries), key)

\* C35: for any selector applied to a map, the result is the remaining path
\* evaluated against the value of the first entry, in insertion order, whose
\* key equals the selector, and null when no entry has that key; an entry
\* that repeats an earlier key is never selected.
C35_MapKey ==
    /\ \A m \in PathMaps, key \in PathKeys, rest \in {<<>>, <<Integer(0)>>} :
          get_from(<<key>> \o rest, m) = get_from(rest, FirstEntry(m.v, key))
    /\ LET p == parse(data_path) IN
       (selected.done /\ p # <<>> /\ untag(value).t = "Map") =>
          LET m == untag(value).v IN
          /\ selected.val = get_from(Tail(p), FirstEntry(m, Head(p)))
          /\ (\A i \in 1..Len(m) : m[i][1] # Head(p)) => selected.val = Value_Null

\* Reached: the key a selected the value of the first of two entries with the
\* key a, whose values differ; and the index 1 selected the value of an entry
\* whose key is the integer 1.
C35_Witness ==
    /\ selected.done
    /\ \/ /\ value = Map(<< <<Text(<<97>>), Integer(1)>>, <<Text(<<97>>), Integer(0)>> >>)
          /\ data_path = <<46, 97>>
          /\ selected.val = Integer(1)
       \/ /\ value.t = "Map"
          /\ data_path = <<46, 49>>
          /\ selected.val = Text(<<97>>)

-----------------------------------------------------------------------------
(* The REPL: interrupt and end of input *)

\* The step is a call of readline that was interrupted.
ReadInterrupted == repl'.lines = repl.lines + 1 /\ repl'.line.kind = "Interrupted"

\* The step is a call of readline that reported the end of the input.
ReadEof == repl.state = "reading" /\ repl'.line.kind = "Eof"

\* C36: an interrupt while a line is read leaves the remembered last exit and
\* the state of the interpreter (its directory, the number of evaluations, the
\* directory of the process) as they were, prints nothing, and the loop goes
\* on reading; the end of the input ends the loop, and once the loop has
\* ended no line is read or evaluated any more.
C36_Step ==
    /\ ReadInterrupted =>
          /\ last_exit' = last_exit
          /\ repl'.dir = repl.dir /\ repl'.host_dir = repl.host_dir
          /\ repl'.evals = repl.evals /\ repl'.printed = repl.printed
          /\ repl'.state = "reading"
    /\ ReadEof =>
          /\ repl'.state = "ended"
          /\ last_exit' = last_exit
          /\ repl'.lines = repl.lines /\ repl'.evals = repl.evals
    /\ repl.state = "ended" => (repl' = repl /\ last_exit' = last_exit)

C36_InterruptAndEof == [][C36_Step]_vars

\* Reached: after a command that ended with command-not-found and moved the
\* interpreter to /sub, the next readline was interrupted, and last_exit and
\* the directory are as the command left them.
C36_Witness ==
    /\ repl.state = "reading"
    /\ repl.line.kind = "Interrupted"
    /\ repl.evals = 1 /\ repl.lines = 2
    /\ last_exit = COMMAND_NOT_FOUND
    /\ repl.dir = <<"sub">>

-----------------------------------------------------------------------------
(* Termination of a pipeline evaluation *)

\* C37: when every stage terminates once its stdin has reached end-of-input,
\* or at once if it does not read, and every writer exits on a broken pipe,
\* every evaluation of a pipeline eventually returns: no stage waits forever
\* for the end of the input on an inter-stage pipe, whatever the stage
\* downstream of it is.
C37_EvalReturns == (pc # "idle") ~> (pc = "done")

\* Reached: a pipeline in which `cat` writes into the pipe of a cd stage, which
\* never reads it, and one in which a worker of `to` reads the pipe of a stage
\* before it, has been waited for to its end and returned an exit.
C37_Witness ==
    /\ pc = "done"
    /\ result.tag = "Ok"
    /\ Len(exit_codes) = Len(stages)
    /\ \/ /\ Len(stages) = 3
          /\ stages[1].command = "cat" /\ stages[2].command = "cat"
          /\ stages[3].exe.kind = "Cd"
       \/ /\ Len(stages) = 3
          /\ stages[1].command = "ls"
          /\ children[2].kind = "Thread" /\ children[3].kind = "Thread"

-----------------------------------------------------------------------------
(* The order of the plumbing *)

\* What opening the target of a stdout redirection leaves in the file system.
OutTouched == {"truncate_out", "append_out"}

\* C38: the stdin end of the pipeline is evaluated before the stdout end: the
\* step that opens the stdin redirection file touches no stdout target and
\* creates no pipe; a stdout target is touched only by the step after it, when
\* the stdin end is in place; and when the stdin file does not open,
\* eval_command returns the error with the stdout target neither created nor
\* truncated, no pipe created and no stage launched.
C38_Step ==
    /\ pc = "stdin" =>
          /\ effects'.files \cap OutTouched = {}
          /\ effects'.pipes = 0
          /\ ends'.stdout = Null
    /\ (effects'.files \cap OutTouched) \ effects.files # {} =>
          /\ pc = "stdout"
          /\ ends.stdin # Null
          /\ cmd.stdin_redirect = "File" => "open_in" \in effects.files
    /\ (pc = "stdin" /\ pc' = "done") =>
          /\ result' = Failed(Error_Io)
          /\ effects'.failed = "stdin"
          /\ effects'.files = {}
          /\ effects'.pipes = 0
          /\ effects'.executed = <<>> /\ children' = <<>>
          /\ engineHolds' = {}

C38_StdinFirst == [][C38_Step]_vars

\* Reached: a pipeline with both redirections whose stdin file did not open
\* has returned; nothing was created.
C38_Witness ==
    /\ pc = "done"
    /\ effects.failed = "stdin"
    /\ cmd.stdin_redirect = "File"
    /\ cmd.stdout_redirect = "TruncateFile"
    /\ Len(stages) >= 2
    /\ effects.files = {} /\ effects.pipes = 0

-----------------------------------------------------------------------------
(* Exits: success, signals and the reduction *)

\* Exit values: the codes and signal numbers the properties range over.
SomeCodes == {0, 1, 2, 126, 127, 255}
SomeSignals == {0, 1, 2, 9, 15}
SomeExits == {Code(n) : n \in SomeCodes} \cup {Signal(n) : n \in SomeSignals}

\* An exit is success exactly when it is the code 0; no signal exit is,
\* whatever its number; a killed child's exit is its signal, not a code; and a
\* signal exit that follows only successes is the aggregate, unchanged.
SignalExits ==
    /\ \A e \in SomeExits : success(e) <=> (e.kind = "Code" /\ e.n = 0)
    /\ \A n \in SomeSignals : ~success(Signal(n)) /\ ~success(Exit_from(Killed(n)))
    /\ \A n \in SomeSignals : Exit_from(Killed(n)) = Signal(n)
    /\ \A n \in SomeSignals, e \in SomeExits :
          /\ aggregate(<<Signal(n), e>>) = Signal(n)
          /\ aggregate(<<SUCCESS, Signal(n), e>>) = Signal(n)
          /\ aggregate(<<SUCCESS, SUCCESS, Signal(n)>>) = Signal(n)

\* C39: an exit is success if and only if it is the numeric code 0; a signal
\* exit is non-successful for every signal number, 0 included; and when the
\* first non-successful stage of a pipeline was killed by a signal, the exit
\* eval_command returns is that signal exit with its number.
C39_Step ==
    /\ SignalExits
    /\ pc = "aggregate" =>
          LET first == FirstNonSuccess(exit_codes) IN
          /\ result' = Ok(first)
          /\ success(result'.exit) <=> (\A i \in 1..Len(exit_codes) : exit_codes[i] = Code(0))
          /\ first.kind = "Signal" =>
                /\ result'.exit.kind = "Signal"
                /\ result'.exit.n = first.n
                /\ ~success(result'.exit)

ReduceWorstLaws ==
    /\ \A a, b, c \in SomeExits :
          reduce_worst(reduce_worst(a, b), c) = reduce_worst(a, reduce_worst(b, c))
    /\ \A b \in SomeExits : reduce_worst(SUCCESS, b) = b
    /\ \A a \in SomeExits : reduce_worst(a, SUCCESS) = a

\* C40: Exit::reduce_worst is associative and has success as both a left and
\* a right identity, so the exit eval_command folds out of the per-stage
\* exits is the same for every grouping of the stages: reducing the aggregate
\* of any leading stages with the aggregate of the stages after them gives it.
C40_Step ==
    /\ ReduceWorstLaws
    /\ pc = "aggregate" =>
          /\ result' = Ok(aggregate(exit_codes))
          /\ \A k \in 0..Len(exit_codes) :
                reduce_worst(aggregate(SubSeq(exit_codes, 1, k)),
                             aggregate(SubSeq(exit_codes, k + 1, Len(exit_codes))))
                    = result'.exit
          /\ \A j, k \in 0..Len(exit_codes) :
                j <= k =>
                   reduce_worst(aggregate(SubSeq(exit_codes, 1, j)),
                       reduce_worst(aggregate(SubSeq(exit_codes, j + 1, k)),
                                    aggregate(SubSeq(exit_codes, k + 1, Len(exit_codes)))))
                       = result'.exit

C40_ReduceWorst == [][C40_Step]_vars

\* Reached: the exits of three stages, of which the second and the third
\* failed in different ways, were folded into the exit of the second.
C40_Witness ==
    /\ pc = "done"
    /\ Len(exit_codes) = 3
    /\ exit_codes[1] = Code(0)
    /\ exit_codes[2] = Code(2)
    /\ exit_codes[3] = Signal(9)
    /\ result = Ok(Code(2))

=============================================================================
